---- MODULE Spec2Model ----
(***************************************************************************)
(* Model of the vcpkg-rs repository:                                       *)
(*   - cargo-vcpkg: process_metadata, the aggregation of the               *)
(*     [package.metadata.vcpkg] declarations of a workspace, and the git   *)
(*     steps of build (src/cargo-vcpkg/src/main.rs);                       *)
(*   - vcpkg: Config and Config::probe, the library probe                  *)
(*     (src/vcpkg/src/lib.rs).                                             *)
(*                                                                         *)
(* Option<T> is a sequence of length at most one: None is <<>> and         *)
(* Some(x) is <<x>>, so Some(<<>>) (a present but empty list) differs      *)
(* from None.                                                              *)
(***************************************************************************)
EXTENDS Integers, Sequences, FiniteSets, TLC

None == <<>>
Some(x) == <<x>>
IsSome(o) == Len(o) = 1
IsNone(o) == Len(o) = 0
Unwrap(o) == o[1]
Opt(S) == {None} \cup {Some(x) : x \in S}

(***************************************************************************)
(* Bounds.                                                                 *)
(***************************************************************************)
\* the largest number of packages in metadata.packages
MaxPackages == 2

(***************************************************************************)
(* cargo-vcpkg: the inputs of process_metadata.                            *)
(***************************************************************************)
\* the keys of [package.metadata.vcpkg.target]
MsvcTriple == "x86_64-pc-windows-msvc"
\* the values of --target / TARGET the resolution is run for
TargetTriples == {"", MsvcTriple}

GitUrl == "https://github.com/microsoft/vcpkg"
BranchName == "master"
TagName == "2020.06"
RevName == "4c1db68"
TripletName == "x64-windows-static-md"

\* The port lists the package at position k of metadata.packages can
\* declare.  The dependency lists share names between packages (a port can be
\* required by several crates); the dev-dependency lists of a package use
\* names no other list uses, so that their origin can be told in the result.
GeneralDeps(k) == CASE k = 1 -> <<"a">>
                    [] k = 2 -> <<"m">>
                    [] OTHER -> <<"a", "m">>
GeneralDevDeps(k) == CASE k = 1 -> <<"d">>
                       [] k = 2 -> <<"n">>
                       [] OTHER -> <<"s", "t">>
TargetDeps(k) == CASE k = 1 -> <<"e", "m">>
                   [] k = 2 -> <<"o">>
                   [] OTHER -> <<"o", "e">>
TargetDevDeps(k) == CASE k = 1 -> <<"b", "c">>
                      [] k = 2 -> <<"p">>
                      [] OTHER -> <<"q", "r">>

\* struct Target: the entries with a triplet, and the entry with no key
Targets(k) == [triplet : {Some(TripletName)},
               dependencies : {None, Some(<<>>), Some(TargetDeps(k))},
               dev_dependencies : {None, Some(TargetDevDeps(k))}]
              \cup {[triplet |-> None, dependencies |-> None,
                     dev_dependencies |-> None]}

\* the BTreeMap target of struct Vcpkg: a function from the keys present
TargetMaps(k) == {<<>>} \cup {[t \in {MsvcTriple} |-> x] : x \in Targets(k)}

NoTargets == <<>>

\* struct Vcpkg: declarations that vary the dependency keys
DependencyDecls(k) ==
    [target : TargetMaps(k),
     branch : {None}, rev : {None}, git : {None}, tag : {None},
     dependencies : {None, Some(GeneralDeps(k))},
     dev_dependencies : {None, Some(GeneralDevDeps(k))}]

\* struct Vcpkg: declarations that vary the git source keys
SourceDecls(k) ==
    [target : {NoTargets},
     branch : Opt({BranchName}), rev : Opt({RevName}),
     git : Opt({GitUrl}), tag : Opt({TagName}),
     dependencies : {Some(GeneralDeps(k))},
     dev_dependencies : {None}]

\* struct Vcpkg: a few declarations with all dependency keys set and a git
\* source, with and without an entry for the target and a second selector
FurtherDecls(k) ==
    [target : {NoTargets,
               [t \in {MsvcTriple} |->
                   [triplet |-> Some(TripletName),
                    dependencies |-> Some(TargetDeps(k)),
                    dev_dependencies |-> Some(TargetDevDeps(k))]]},
     branch : {Some(BranchName)}, rev : {None},
     git : {Some(GitUrl)}, tag : Opt({TagName}),
     dependencies : {Some(GeneralDeps(k))},
     dev_dependencies : {Some(GeneralDevDeps(k))}]

\* the declarations of the package at position k: the first two packages
\* take every declaration of the two families, later packages a few
Vcpkgs(k) == CASE k \in {1, 2} -> DependencyDecls(k) \cup SourceDecls(k)
               [] OTHER -> FurtherDecls(k)

\* cargo_metadata::Package: its id and its metadata table, which either
\* deserializes to struct Metadata (Some) or does not (None)
Packages(k) == [id : {k}, metadata : Opt(Vcpkgs(k))]

VARIABLES
    metadata,        \* cargo_metadata::Metadata: [packages, root]
    target_triple,   \* the active target
    pc,              \* position in process_metadata
    i,               \* number of packages the loop has processed
    git_url,         \* process_metadata's accumulators
    vcpkg_ports,
    rev_tag_branch,
    vcpkg_triplet,
    result,          \* what process_metadata returned
    env,             \* the environment variables of the build script
    files,           \* the paths that exist
    config,          \* the vcpkg::Config
    call,            \* the Config::probe call just made: its port name
                     \* and what it returned
    stdout,          \* the lines that call printed
    commands         \* the git and vcpkg commands build has run

cargoVars == <<metadata, target_triple, pc, i, git_url, vcpkg_ports,
               rev_tag_branch, vcpkg_triplet, result>>
probeVars == <<env, files, config, call, stdout>>
buildVars == <<commands>>
vars == <<cargoVars, probeVars, buildVars>>

(***************************************************************************)
(* cargo-vcpkg: process_metadata.                                          *)
(***************************************************************************)
NoRootMessage == "cannot run on a virtual manifest, this command requires running against an actual package in this workspace."
AmbiguousMessage == "must specify one of branch,rev,tag for git source"

Err(msg) == [ok |-> FALSE, err |-> msg]
Ok(acc, root_crate) ==
    [ok |-> TRUE, git_url |-> acc.git_url, vcpkg_ports |-> acc.vcpkg_ports,
     rev_tag_branch |-> acc.rev_tag_branch, vcpkg_triplet |-> acc.vcpkg_triplet,
     root_crate |-> root_crate]
NotReturned == [ok |-> FALSE, err |-> "not returned"]

\* the accumulators before the loop
EmptyAcc == [git_url |-> None, vcpkg_ports |-> <<>>, rev_tag_branch |-> None,
             vcpkg_triplet |-> None, bail |-> FALSE]

\* MatchRevSelector changed: the first key set wins instead of bailing when
\* several are set
MatchRevSelector_firstSet(v) ==
    IF IsSome(v.branch) THEN Some(<<"Branch", Unwrap(v.branch)>>)
    ELSE IF IsSome(v.tag) THEN Some(<<"Tag", Unwrap(v.tag)>>)
    ELSE IF IsSome(v.rev) THEN Some(<<"Rev", Unwrap(v.rev)>>)
    ELSE None

\* match (&v.branch, &v.tag, &v.rev): the selector, or None where the match
\* arm bails
MatchRevSelector(v) ==
    IF IsSome(v.branch) /\ IsNone(v.tag) /\ IsNone(v.rev)
    THEN Some(<<"Branch", Unwrap(v.branch)>>)
    ELSE IF IsNone(v.branch) /\ IsSome(v.tag) /\ IsNone(v.rev)
    THEN Some(<<"Tag", Unwrap(v.tag)>>)
    ELSE IF IsNone(v.branch) /\ IsNone(v.tag) /\ IsSome(v.rev)
    THEN Some(<<"Rev", Unwrap(v.rev)>>)
    ELSE None

\* AdoptsSource changed: the is_root_crate test is missing
AdoptsSource_anyCrate(v, is_root_crate) == IsSome(v.git)

\* only use git url and rev from the root crate
AdoptsSource(v, is_root_crate) == IsSome(v.git) /\ is_root_crate

\* DependenciesOf changed: an empty dependencies key of the target counts as
\* no key
DependenciesOf_emptyIsAbsent(v, tt) ==
    IF tt \in DOMAIN v.target /\ IsSome(v.target[tt].dependencies)
       /\ Unwrap(v.target[tt].dependencies) # <<>>
    THEN Unwrap(v.target[tt].dependencies)
    ELSE IF IsSome(v.dependencies) THEN Unwrap(v.dependencies) ELSE <<>>

\* DependenciesOf changed: a target entry without dependencies key does not
\* fall back to the general dependencies key
DependenciesOf_noFallback(v, tt) ==
    IF tt \in DOMAIN v.target
    THEN IF IsSome(v.target[tt].dependencies)
         THEN Unwrap(v.target[tt].dependencies)
         ELSE <<>>
    ELSE IF IsSome(v.dependencies) THEN Unwrap(v.dependencies) ELSE <<>>

\* the dependencies a package adds: the target's dependencies key if the
\* target has one, else the general dependencies key
DependenciesOf(v, tt) ==
    IF tt \in DOMAIN v.target
    THEN IF IsSome(v.target[tt].dependencies)
         THEN Unwrap(v.target[tt].dependencies)
         ELSE IF IsSome(v.dependencies) THEN Unwrap(v.dependencies) ELSE <<>>
    ELSE IF IsSome(v.dependencies) THEN Unwrap(v.dependencies) ELSE <<>>

\* DevDependenciesOf changed: the target's dev-dependencies are taken from
\* every crate
DevDependenciesOf_anyCrate(v, is_root_crate, tt) ==
    IF tt \in DOMAIN v.target
    THEN IF IsSome(v.target[tt].dev_dependencies)
         THEN Unwrap(v.target[tt].dev_dependencies)
         ELSE <<>>
    ELSE IF is_root_crate /\ IsSome(v.dev_dependencies)
         THEN Unwrap(v.dev_dependencies)
         ELSE <<>>

\* DevDependenciesOf changed: the general dev-dependencies are never taken
DevDependenciesOf_targetOnly(v, is_root_crate, tt) ==
    IF tt \in DOMAIN v.target /\ is_root_crate
       /\ IsSome(v.target[tt].dev_dependencies)
    THEN Unwrap(v.target[tt].dev_dependencies)
    ELSE <<>>

\* DevDependenciesOf changed: a target entry without dev-dependencies key
\* falls back to the general dev-dependencies
DevDependenciesOf_fallback(v, is_root_crate, tt) ==
    IF tt \in DOMAIN v.target /\ is_root_crate
       /\ IsSome(v.target[tt].dev_dependencies)
    THEN Unwrap(v.target[tt].dev_dependencies)
    ELSE IF is_root_crate /\ IsSome(v.dev_dependencies)
         THEN Unwrap(v.dev_dependencies)
         ELSE <<>>

\* the dev-dependencies a package adds
DevDependenciesOf(v, is_root_crate, tt) ==
    IF tt \in DOMAIN v.target
    THEN IF is_root_crate /\ IsSome(v.target[tt].dev_dependencies)
         THEN Unwrap(v.target[tt].dev_dependencies)
         ELSE <<>>
    ELSE IF is_root_crate /\ IsSome(v.dev_dependencies)
         THEN Unwrap(v.dev_dependencies)
         ELSE <<>>

\* the triplet after a package
TripletAfter(old, v, is_root_crate, tt) ==
    IF tt \in DOMAIN v.target /\ is_root_crate /\ IsSome(v.target[tt].triplet)
    THEN v.target[tt].triplet
    ELSE old

\* LoopBody changed: a package whose metadata does not deserialize is an
\* error instead of being skipped
LoopBody_noBlockBails(acc, p, root_crate, tt) ==
    IF IsNone(p.metadata)
    THEN [acc EXCEPT !.bail = TRUE]
    ELSE LET v == Unwrap(p.metadata)
             is_root_crate == p.id = root_crate
         IN  IF AdoptsSource(v, is_root_crate) /\ IsNone(MatchRevSelector(v))
             THEN [acc EXCEPT !.bail = TRUE]
             ELSE [git_url |-> IF AdoptsSource(v, is_root_crate)
                               THEN v.git ELSE acc.git_url,
                   rev_tag_branch |-> IF AdoptsSource(v, is_root_crate)
                                      THEN MatchRevSelector(v)
                                      ELSE acc.rev_tag_branch,
                   vcpkg_ports |-> acc.vcpkg_ports \o DependenciesOf(v, tt)
                                     \o DevDependenciesOf(v, is_root_crate, tt),
                   vcpkg_triplet |-> TripletAfter(acc.vcpkg_triplet, v,
                                                  is_root_crate, tt),
                   bail |-> FALSE]

\* LoopBody changed: a port that was collected already is not added again
LoopBody_deduplicated(acc, p, root_crate, tt) ==
    IF IsNone(p.metadata)
    THEN acc
    ELSE LET v == Unwrap(p.metadata)
             is_root_crate == p.id = root_crate
             New(port) == \A n \in DOMAIN acc.vcpkg_ports :
                             acc.vcpkg_ports[n] # port
         IN  IF AdoptsSource(v, is_root_crate) /\ IsNone(MatchRevSelector(v))
             THEN [acc EXCEPT !.bail = TRUE]
             ELSE [git_url |-> IF AdoptsSource(v, is_root_crate)
                               THEN v.git ELSE acc.git_url,
                   rev_tag_branch |-> IF AdoptsSource(v, is_root_crate)
                                      THEN MatchRevSelector(v)
                                      ELSE acc.rev_tag_branch,
                   vcpkg_ports |-> acc.vcpkg_ports
                                     \o SelectSeq(DependenciesOf(v, tt)
                                                    \o DevDependenciesOf(v,
                                                         is_root_crate, tt),
                                                  New),
                   vcpkg_triplet |-> TripletAfter(acc.vcpkg_triplet, v,
                                                  is_root_crate, tt),
                   bail |-> FALSE]

\* LoopBody changed: the root's selector is taken also when the root declares
\* no git URL
LoopBody_selectorWithoutGit(acc, p, root_crate, tt) ==
    IF IsNone(p.metadata)
    THEN acc
    ELSE LET v == Unwrap(p.metadata)
             is_root_crate == p.id = root_crate
         IN  IF AdoptsSource(v, is_root_crate) /\ IsNone(MatchRevSelector(v))
             THEN [acc EXCEPT !.bail = TRUE]
             ELSE [git_url |-> IF AdoptsSource(v, is_root_crate)
                               THEN v.git ELSE acc.git_url,
                   rev_tag_branch |-> IF is_root_crate
                                      THEN MatchRevSelector(v)
                                      ELSE acc.rev_tag_branch,
                   vcpkg_ports |-> acc.vcpkg_ports \o DependenciesOf(v, tt)
                                     \o DevDependenciesOf(v, is_root_crate, tt),
                   vcpkg_triplet |-> TripletAfter(acc.vcpkg_triplet, v,
                                                  is_root_crate, tt),
                   bail |-> FALSE]

\* one iteration of `for p in &metadata.packages`
LoopBody(acc, p, root_crate, tt) ==
    IF IsNone(p.metadata)
    THEN acc
    ELSE LET v == Unwrap(p.metadata)
             is_root_crate == p.id = root_crate
         IN  IF AdoptsSource(v, is_root_crate) /\ IsNone(MatchRevSelector(v))
             THEN [acc EXCEPT !.bail = TRUE]
             ELSE [git_url |-> IF AdoptsSource(v, is_root_crate)
                               THEN v.git ELSE acc.git_url,
                   rev_tag_branch |-> IF AdoptsSource(v, is_root_crate)
                                      THEN MatchRevSelector(v)
                                      ELSE acc.rev_tag_branch,
                   vcpkg_ports |-> acc.vcpkg_ports \o DependenciesOf(v, tt)
                                     \o DevDependenciesOf(v, is_root_crate, tt),
                   vcpkg_triplet |-> TripletAfter(acc.vcpkg_triplet, v,
                                                  is_root_crate, tt),
                   bail |-> FALSE]

RECURSIVE LoopFrom(_, _, _, _)
LoopFrom(acc, k, md, tt) ==
    IF k > Len(md.packages)
    THEN Ok(acc, Unwrap(md.root))
    ELSE LET next == LoopBody(acc, md.packages[k], Unwrap(md.root), tt)
         IN  IF next.bail THEN Err(AmbiguousMessage)
             ELSE LoopFrom(next, k + 1, md, tt)

\* process_metadata as a function of its arguments
process_metadata(md, tt) ==
    IF IsNone(md.root) THEN Err(NoRootMessage)
    ELSE LoopFrom(EmptyAcc, 1, md, tt)

Acc == [git_url |-> git_url, vcpkg_ports |-> vcpkg_ports,
        rev_tag_branch |-> rev_tag_branch, vcpkg_triplet |-> vcpkg_triplet,
        bail |-> FALSE]

\* build starts with the target (target_triple()) and an empty
\* cargo_metadata::MetadataCommand result
CargoInit ==
    /\ target_triple \in TargetTriples
    /\ metadata = [packages |-> <<>>, root |-> None]
    /\ pc = "exec"
    /\ i = 0
    /\ git_url = None
    /\ vcpkg_ports = <<>>
    /\ rev_tag_branch = None
    /\ vcpkg_triplet = None
    /\ result = NotReturned

\* cmd.exec(): cargo metadata lists one more package of the workspace
MetadataPackage ==
    /\ UNCHANGED <<probeVars, buildVars>>
    /\ pc = "exec"
    /\ Len(metadata.packages) < MaxPackages
    /\ \E p \in Packages(Len(metadata.packages) + 1) :
          metadata' = [metadata EXCEPT !.packages = Append(@, p)]
    /\ UNCHANGED <<target_triple, pc, i, git_url, vcpkg_ports, rev_tag_branch,
                   vcpkg_triplet, result>>

\* cmd.exec() returns: resolve.root is None for a virtual manifest and
\* otherwise the id of one of the packages
MetadataExec ==
    /\ UNCHANGED <<probeVars, buildVars>>
    /\ pc = "exec"
    /\ Len(metadata.packages) >= 1
    /\ \E r \in Opt(1..Len(metadata.packages)) :
          metadata' = [metadata EXCEPT !.root = r]
    /\ pc' = "start"
    /\ UNCHANGED <<target_triple, i, git_url, vcpkg_ports, rev_tag_branch,
                   vcpkg_triplet, result>>

\* ResolveRoot changed: a virtual manifest takes the first package as root
ResolveRoot_firstPackage ==
    /\ UNCHANGED <<probeVars, buildVars>>
    /\ pc = "start"
    /\ pc' = "loop"
    /\ metadata' = IF IsNone(metadata.root)
                   THEN [metadata EXCEPT !.root = Some(1)] ELSE metadata
    /\ UNCHANGED <<target_triple, i, git_url, vcpkg_ports, rev_tag_branch,
                   vcpkg_triplet, result>>

\* let root_crate = resolve.root.as_ref().context(...)?
ResolveRoot ==
    /\ UNCHANGED <<probeVars, buildVars>>
    /\ pc = "start"
    /\ IF IsNone(metadata.root)
       THEN /\ pc' = "done"
            /\ result' = Err(NoRootMessage)
       ELSE /\ pc' = "loop"
            /\ result' = result
    /\ UNCHANGED <<metadata, target_triple, i, git_url, vcpkg_ports,
                   rev_tag_branch, vcpkg_triplet>>

\* the body of the loop for the next package
NextPackage ==
    /\ UNCHANGED <<probeVars, buildVars>>
    /\ pc = "loop"
    /\ i < Len(metadata.packages)
    /\ LET next == LoopBody(Acc, metadata.packages[i + 1],
                            Unwrap(metadata.root), target_triple)
       IN  IF next.bail
           THEN /\ pc' = "done"
                /\ result' = Err(AmbiguousMessage)
                /\ UNCHANGED <<i, git_url, vcpkg_ports, rev_tag_branch,
                               vcpkg_triplet>>
           ELSE /\ pc' = "loop"
                /\ i' = i + 1
                /\ git_url' = next.git_url
                /\ vcpkg_ports' = next.vcpkg_ports
                /\ rev_tag_branch' = next.rev_tag_branch
                /\ vcpkg_triplet' = next.vcpkg_triplet
                /\ result' = result
    /\ UNCHANGED <<metadata, target_triple>>

\* Ok((git_url, vcpkg_ports, rev_tag_branch, vcpkg_triplet, root_crate))
ReturnOk ==
    /\ UNCHANGED <<probeVars, buildVars>>
    /\ pc = "loop"
    /\ i = Len(metadata.packages)
    /\ pc' = "done"
    /\ result' = Ok(Acc, Unwrap(metadata.root))
    /\ UNCHANGED <<metadata, target_triple, i, git_url, vcpkg_ports,
                   rev_tag_branch, vcpkg_triplet>>


(***************************************************************************)
(* vcpkg: strings and paths.  A string is the sequence of its characters,  *)
(* a path the sequence of its components.                                  *)
(***************************************************************************)
LowerCase == <<"a", "b", "c", "d", "e", "f", "g", "h", "i", "j", "k", "l",
    "m", "n", "o", "p", "q", "r", "s", "t", "u", "v", "w", "x", "y", "z">>
UpperCase == <<"A", "B", "C", "D", "E", "F", "G", "H", "I", "J", "K", "L",
    "M", "N", "O", "P", "Q", "R", "S", "T", "U", "V", "W", "X", "Y", "Z">>

\* char::to_ascii_uppercase
to_ascii_uppercase(c) ==
    IF \E n \in 1..Len(LowerCase) : LowerCase[n] = c
    THEN UpperCase[CHOOSE n \in 1..Len(LowerCase) : LowerCase[n] = c]
    ELSE c

\* fn envify
envify(name) ==
    [n \in 1..Len(name) |->
        IF to_ascii_uppercase(name[n]) = "-" THEN "_"
        ELSE to_ascii_uppercase(name[n])]

\* str::starts_with
StartsWith(s, prefix) ==
    Len(s) >= Len(prefix) /\ SubSeq(s, 1, Len(prefix)) = prefix

\* str::contains
Contains(s, pattern) ==
    \E n \in 0..(Len(s) - Len(pattern)) :
        SubSeq(s, n + 1, n + Len(pattern)) = pattern

\* PathBuf::push / Path::join of one component
Push(path, component) == Append(path, component)

\* the positions of '.' in a file name
DotsOf(name) == {n \in 1..Len(name) : name[n] = "."}
LastDot(name) == CHOOSE n \in DotsOf(name) : \A m \in DotsOf(name) : m <= n

\* Path::file_stem of a file name: the name up to its last '.', or the whole
\* name if it has no '.' or only a leading one
FileStem(name) ==
    IF DotsOf(name) = {} \/ LastDot(name) = 1 THEN name
    ELSE SubSeq(name, 1, LastDot(name) - 1)

\* PathBuf::set_extension: the file stem of the last component, '.', and the
\* extension
SetExtension(path, extension) ==
    [path EXCEPT ![Len(path)] = FileStem(@) \o <<".">> \o extension]

Separator == "\\"

\* Path::display / to_str / to_string_lossy: the components joined by the
\* separator
RECURSIVE Display(_)
Display(path) ==
    IF Len(path) = 0 THEN <<>>
    ELSE IF Len(path) = 1 THEN path[1]
    ELSE Display(SubSeq(path, 1, Len(path) - 1)) \o <<Separator>>
            \o path[Len(path)]

(***************************************************************************)
(* vcpkg: errors and results.                                              *)
(***************************************************************************)
\* enum Error: the variant and its String
Error(variant, detail) == [ok |-> FALSE, error |-> variant, detail |-> detail]
NotMSVC == [ok |-> FALSE, error |-> "NotMSVC", detail |-> <<>>]

\* Library::new
LibraryNew(is_static) ==
    [include_paths |-> <<>>, link_paths |-> <<>>, cargo_metadata |-> <<>>,
     is_static |-> is_static, found_dlls |-> <<>>, found_libs |-> <<>>]

\* Config::new
ConfigNew == [statik |-> None, cargo_metadata |-> TRUE, required_libs |-> <<
    >>]

\* struct LibNames
LibNames(lib_stem, dll_stem) == [lib_stem |-> lib_stem, dll_stem |-> dll_stem]

(***************************************************************************)
(* vcpkg: the environment and the tree.                                    *)
(***************************************************************************)
\* msvc_target changed: the x86_64- prefix is looked at first
msvc_target_prefixFirst(e) ==
    LET target == IF IsSome(e.TARGET) THEN Unwrap(e.TARGET) ELSE <<>>
    IN  IF StartsWith(target, <<"x", "8", "6", "_", "6", "4",
        "-">>) THEN [ok |-> TRUE, arch |-> "X64"]
        ELSE IF ~Contains(target, <<"-", "p", "c", "-", "w", "i", "n", "d",
            "o", "w", "s", "-", "m", "s", "v", "c">>) THEN NotMSVC
        ELSE [ok |-> TRUE, arch |-> "X86"]

\* fn msvc_target
msvc_target(e) ==
    LET target == IF IsSome(e.TARGET) THEN Unwrap(e.TARGET) ELSE <<>>
    IN  IF ~Contains(target, <<"-", "p", "c", "-", "w", "i", "n", "d", "o",
        "w", "s", "-", "m", "s", "v", "c">>) THEN NotMSVC
        ELSE IF StartsWith(target, <<"x", "8", "6", "_", "6", "4", "-">>)
        THEN [ok |-> TRUE, arch |-> "X64"]
        ELSE [ok |-> TRUE, arch |-> "X86"]

\* impl fmt::Display for MSVCTarget
MSVCTargetDisplay(arch) ==
    IF arch = "X86" THEN <<"x", "8", "6", "-", "w", "i", "n", "d", "o", "w",
        "s">> ELSE <<"x", "6", "4", "-", "w", "i", "n", "d", "o", "w", "s">>

NoLocalAppDataMessage == <<"F", "a", "i", "l", "e", "d", " ", "t", "o", " ",
    "r", "e", "a", "d", " ", "L", "O", "C", "A", "L", "A", "P", "P", "D",
    "A", "T", "A", " ", "e", "n", "v", "i", "r", "o", "n", "m", "e", "n",
    "t", " ", "v", "a", "r", "i", "a", "b", "l", "e">>
NoUserTargetsMessage ==
    <<"N", "o", " ", "v", "c", "p", "k", "g", ".", "u", "s", "e", "r", ".",
        "t", "a", "r", "g", "e", "t", "s", " ", "f", "o", "u", "n", "d", ".",
        " ", "r", "u", "n", " ", "'", "v", "c", "p", "k", "g", " ", "i", "n",
        "t", "e", "g", "r", "a", "t", "e", " ", "i", "n", "s", "t", "a", "l",
        "l", "'", " ", "o", "r", " ", "s", "e", "t", " ", "V", "C", "P", "K",
        "G", "_", "R", "O", "O", "T", " ", "e", "n", "v", "i", "r", "o", "n",
        "m", "e", "n", "t", " ", "v", "a", "r", "i", "a", "b", "l", "e", ".">>

ParsingFailed(path) == <<"P", "a", "r", "s", "i", "n", "g", " ", "o", "f",
    " ">> \o Display(path) \o <<" ", "f", "a", "i", "l", "e", "d", ".">>
NoProject(path) ==
    <<"P", "r", "o", "j", "e", "c", "t", " ", "l", "o", "c", "a", "t", "i",
        "o", "n", " ", "n", "o", "t", " ", "f", "o", "u", "n", "d", " ", "p",
        "a", "r", "s", "i", "n", "g", " ">> \o Display(path) \o <<".">>
NoRootAbove(found) == <<"C", "o", "u", "l", "d", " ", "n", "o", "t", " ",
    "f", "i", "n", "d", " ", "v", "c", "p", "k", "g", " ", "r", "o", "o",
    "t", " ", "a", "b", "o", "v", "e", " ">> \o Display(found)

\* fn find_vcpkg_root: VCPKG_ROOT if set, else the tree four levels above
\* the first Project of %LOCALAPPDATA%\vcpkg\vcpkg.user.targets.
\* e.user_targets.state says how reading that file goes: "absent" (it
\* cannot be opened), "unreadable" (a line cannot be read), "no project"
\* (no line names a Project) or "project", with the path in .project.
find_vcpkg_root(e) ==
    IF IsSome(e.VCPKG_ROOT) THEN [ok |-> TRUE, path |-> Unwrap(e.VCPKG_ROOT)]
    ELSE IF IsNone(e.LOCALAPPDATA)
    THEN Error("VcpkgNotFound", NoLocalAppDataMessage)
    ELSE LET vcpkg_user_targets_path ==
                 Push(Push(Unwrap(e.LOCALAPPDATA), <<"v", "c", "p", "k",
                     "g">>),
                      <<"v", "c", "p", "k", "g", ".", "u", "s", "e", "r",
                          ".", "t", "a", "r", "g", "e", "t", "s">>)
             found == e.user_targets.project
         IN  IF e.user_targets.state = "absent"
             THEN Error("VcpkgNotFound", NoUserTargetsMessage)
             ELSE IF e.user_targets.state = "unreadable"
             THEN Error("VcpkgNotFound",
                        ParsingFailed(vcpkg_user_targets_path))
             ELSE IF e.user_targets.state = "no project"
             THEN Error("VcpkgNotFound", NoProject(vcpkg_user_targets_path))
             ELSE IF Len(found) <= 4
             THEN Error("VcpkgNotFound", NoRootAbove(found))
             ELSE [ok |-> TRUE, path |-> SubSeq(found, 1, Len(found) - 4)]

\* validate_vcpkg_root changed: the marker is not looked for
validate_vcpkg_root_noCheck(path, fs) == [ok |-> TRUE]

\* fn validate_vcpkg_root
validate_vcpkg_root(path, fs) ==
    LET vcpkg_root_path == Push(path, <<".", "v", "c", "p", "k", "g", "-",
        "r", "o", "o", "t">>)
    IN  IF vcpkg_root_path \in fs THEN [ok |-> TRUE]
        ELSE Error("VcpkgNotFound",
                   <<"C", "o", "u", "l", "d", " ", "n", "o", "t", " ", "f",
                       "i", "n", "d", " ", "v", "c", "p", "k", "g", " ", "r",
                       "o", "o", "t", " ", "a", "t", " ">>
                     \o Display(vcpkg_root_path))

\* has_signal: env::var_os(name).is_some()
VarIsSome(e, name) == name \in e.signals

\* infer_static changed: the global variables are looked at before the
\* variables of the library
infer_static_globalFirst(e, name) ==
    IF VarIsSome(e, <<"V", "C", "P", "K", "G", "_", "A", "L", "L", "_", "S",
        "T", "A", "T", "I", "C">>) THEN TRUE
    ELSE IF VarIsSome(e, <<"V", "C", "P", "K", "G", "_", "A", "L", "L", "_",
        "D", "Y", "N", "A", "M", "I", "C">>) THEN FALSE
    ELSE IF VarIsSome(e, envify(name) \o <<"_", "S", "T", "A", "T", "I",
        "C">>) THEN TRUE
    ELSE FALSE

\* fn infer_static
infer_static(e, name) ==
    IF VarIsSome(e, envify(name) \o <<"_", "S", "T", "A", "T", "I",
        "C">>) THEN TRUE
    ELSE IF VarIsSome(e, envify(name) \o <<"_", "D", "Y", "N", "A", "M", "I",
        "C">>) THEN FALSE
    ELSE IF VarIsSome(e, <<"V", "C", "P", "K", "G", "_", "A", "L", "L", "_",
        "S", "T", "A", "T", "I", "C">>) THEN TRUE
    ELSE IF VarIsSome(e, <<"V", "C", "P", "K", "G", "_", "A", "L", "L", "_",
        "D", "Y", "N", "A", "M", "I", "C">>) THEN FALSE
    ELSE FALSE

\* Config::is_static
is_static(cfg, e, name) ==
    IF IsSome(cfg.statik) THEN Unwrap(cfg.statik) ELSE infer_static(e, name)

(***************************************************************************)
(* vcpkg: Config::probe.                                                   *)
(***************************************************************************)
\* LinkLibLine changed: the line is never tagged static
LinkLibLine_untagged(static_lib, lib_stem) ==
    <<"c", "a", "r", "g", "o", ":", "r", "u", "s", "t", "c", "-", "l", "i",
        "n", "k", "-", "l", "i", "b", "=">> \o lib_stem

\* the cargo:rustc-link-lib line of a required library
LinkLibLine(static_lib, lib_stem) ==
    IF static_lib THEN <<"c", "a", "r", "g", "o", ":", "r", "u", "s", "t",
        "c", "-", "l", "i", "n", "k", "-", "l", "i", "b", "=", "s", "t", "a",
        "t", "i", "c", "=">> \o lib_stem
    ELSE <<"c", "a", "r", "g", "o", ":", "r", "u", "s", "t", "c", "-", "l",
        "i", "n", "k", "-", "l", "i", "b", "=">> \o lib_stem

LinkSearchLine(path) == <<"c", "a", "r", "g", "o", ":", "r", "u", "s", "t",
    "c", "-", "l", "i", "n", "k", "-", "s", "e", "a", "r", "c", "h", "=",
    "n", "a", "t", "i", "v", "e", "=">> \o Display(path)

\* the .lib and the .dll looked for
LibLocation(lib_path, required_lib) ==
    SetExtension(Push(lib_path, required_lib.lib_stem), <<"l", "i", "b">>)
DllLocation(bin_path, required_lib) ==
    SetExtension(Push(bin_path, required_lib.dll_stem), <<"d", "l", "l">>)

\* VerifyDll changed: the .dll is not looked for
VerifyDll_unchecked(lib, required_lib, static_lib, bin_path, fs) ==
    IF static_lib THEN [ok |-> TRUE, lib |-> lib]
    ELSE [ok |-> TRUE,
          lib |-> [lib EXCEPT !.found_dlls =
                                  Append(@, DllLocation(bin_path, required_lib))]]

\* verify that the DLL exists
VerifyDll(lib, required_lib, static_lib, bin_path, fs) ==
    IF static_lib THEN [ok |-> TRUE, lib |-> lib]
    ELSE IF DllLocation(bin_path, required_lib) \notin fs
    THEN Error("LibNotFound", Display(DllLocation(bin_path, required_lib)))
    ELSE [ok |-> TRUE,
          lib |-> [lib EXCEPT !.found_dlls =
                                  Append(@, DllLocation(bin_path, required_lib))]]

\* RequiredLib changed: the .dll is looked for before the .lib
RequiredLib_dllFirst(lib, required_lib, static_lib, lib_path, bin_path, fs) ==
    LET lined == [lib EXCEPT !.cargo_metadata =
                                 Append(@, LinkLibLine(static_lib,
                                                       required_lib.lib_stem))]
        dll == VerifyDll(lined, required_lib, static_lib, bin_path, fs)
    IN  IF ~dll.ok THEN dll
        ELSE IF LibLocation(lib_path, required_lib) \notin fs
        THEN Error("LibNotFound",
                   Display(LibLocation(lib_path, required_lib)))
        ELSE [ok |-> TRUE,
              lib |-> [dll.lib EXCEPT !.found_libs =
                          Append(@, LibLocation(lib_path, required_lib))]]

\* one iteration of `for required_lib in &self.required_libs`
RequiredLib(lib, required_lib, static_lib, lib_path, bin_path, fs) ==
    LET lined == [lib EXCEPT !.cargo_metadata =
                                 Append(@, LinkLibLine(static_lib,
                                                       required_lib.lib_stem))]
    IN  IF LibLocation(lib_path, required_lib) \notin fs
        THEN Error("LibNotFound",
                   Display(LibLocation(lib_path, required_lib)))
        ELSE VerifyDll([lined EXCEPT !.found_libs =
                           Append(@, LibLocation(lib_path, required_lib))],
                       required_lib, static_lib, bin_path, fs)

RECURSIVE RequiredLibsFrom(_, _, _, _, _, _, _)
RequiredLibsFrom(lib, k, required_libs, static_lib, lib_path, bin_path, fs) ==
    IF k > Len(required_libs) THEN [ok |-> TRUE, lib |-> lib]
    ELSE LET next == RequiredLib(lib, required_libs[k], static_lib, lib_path,
                                 bin_path, fs)
         IN  IF ~next.ok THEN next
             ELSE RequiredLibsFrom(next.lib, k + 1, required_libs, static_lib,
                                   lib_path, bin_path, fs)

\* BasePath changed: the triplet has no -static appendage
BasePath_noAppendage(vcpkg_root, msvc_arch, static_lib) ==
    Push(Push(vcpkg_root, <<"i", "n", "s", "t", "a", "l", "l", "e", "d">>),
        MSVCTargetDisplay(msvc_arch))

\* the directory of the triplet: {root}\installed\{arch}-windows[-static]
BasePath(vcpkg_root, msvc_arch, static_lib) ==
    LET static_appendage == IF static_lib THEN <<"-", "s", "t", "a", "t",
        "i", "c">> ELSE <<>>
        vcpkg_triple == MSVCTargetDisplay(msvc_arch) \o static_appendage
    IN  Push(Push(vcpkg_root, <<"i", "n", "s", "t", "a", "l", "l", "e",
        "d">>), vcpkg_triple)

\* the part of probe after the tree was validated
ProbeTree(cfg, e, fs, port_name, msvc_arch, vcpkg_root) ==
    LET static_lib == is_static(cfg, e, port_name)
        base == BasePath(vcpkg_root, msvc_arch, static_lib)
        lib_path == Push(base, <<"l", "i", "b">>)
        bin_path == Push(base, <<"b", "i", "n">>)
        include_path == Push(base, <<"i", "n", "c", "l", "u", "d", "e">>)
        lib == [LibraryNew(static_lib) EXCEPT
                   !.cargo_metadata =
                       IF static_lib THEN <<LinkSearchLine(lib_path)>>
                       ELSE <<LinkSearchLine(lib_path),
                              LinkSearchLine(bin_path)>>,
                   !.include_paths = <<include_path>>,
                   !.link_paths = <<lib_path>>]
    IN  RequiredLibsFrom(lib, 1, cfg.required_libs, static_lib, lib_path,
                         bin_path, fs)

\* ProbeReturn changed: the marker is looked for after the artifacts
ProbeReturn_validateLast(cfg, e, fs, port_name) ==
    IF VarIsSome(e, envify(port_name) \o <<"_", "N", "O", "_", "V", "C", "P",
        "K", "G">>)
    THEN Error("EnvNoPkgConfig", envify(port_name) \o <<"_", "N", "O", "_",
        "V", "C", "P", "K", "G">>)
    ELSE IF ~msvc_target(e).ok THEN msvc_target(e)
    ELSE IF ~find_vcpkg_root(e).ok THEN find_vcpkg_root(e)
    ELSE LET tree == ProbeTree(cfg, e, fs, port_name, msvc_target(e).arch,
                               find_vcpkg_root(e).path)
         IN  IF ~tree.ok THEN tree
             ELSE IF ~validate_vcpkg_root(find_vcpkg_root(e).path, fs).ok
             THEN validate_vcpkg_root(find_vcpkg_root(e).path, fs)
             ELSE tree

\* ProbeReturn changed: the target is examined before the opt-out variable
ProbeReturn_targetFirst(cfg, e, fs, port_name) ==
    IF ~msvc_target(e).ok THEN msvc_target(e)
    ELSE IF VarIsSome(e, envify(port_name) \o <<"_", "N", "O", "_", "V", "C",
        "P", "K", "G">>)
    THEN Error("EnvNoPkgConfig", envify(port_name) \o <<"_", "N", "O", "_",
        "V", "C", "P", "K", "G">>)
    ELSE IF ~find_vcpkg_root(e).ok THEN find_vcpkg_root(e)
    ELSE IF ~validate_vcpkg_root(find_vcpkg_root(e).path, fs).ok
    THEN validate_vcpkg_root(find_vcpkg_root(e).path, fs)
    ELSE ProbeTree(cfg, e, fs, port_name, msvc_target(e).arch,
                   find_vcpkg_root(e).path)

\* what probe returns for a Config whose required_libs is not empty
ProbeReturn(cfg, e, fs, port_name) ==
    IF VarIsSome(e, envify(port_name) \o <<"_", "N", "O", "_", "V", "C", "P",
        "K", "G">>)
    THEN Error("EnvNoPkgConfig", envify(port_name) \o <<"_", "N", "O", "_",
        "V", "C", "P", "K", "G">>)
    ELSE IF ~msvc_target(e).ok THEN msvc_target(e)
    ELSE IF ~find_vcpkg_root(e).ok THEN find_vcpkg_root(e)
    ELSE IF ~validate_vcpkg_root(find_vcpkg_root(e).path, fs).ok
    THEN validate_vcpkg_root(find_vcpkg_root(e).path, fs)
    ELSE ProbeTree(cfg, e, fs, port_name, msvc_target(e).arch,
                   find_vcpkg_root(e).path)

\* WithDefaultLib changed: no pair is added for the port name
WithDefaultLib_never(cfg, port_name) == cfg

\* WithDefaultLib changed: the port name is added to required_libs on every
\* call
WithDefaultLib_always(cfg, port_name) ==
    [cfg EXCEPT !.required_libs = Append(@, LibNames(port_name, port_name))]

\* the required_libs probe works with: the port name if no overrides have
\* been selected
WithDefaultLib(cfg, port_name) ==
    IF cfg.required_libs = <<>>
    THEN [cfg EXCEPT !.required_libs = <<LibNames(port_name, port_name)>>]
    ELSE cfg

\* Printed changed: the cargo_metadata flag is not looked at
Printed_ignoringFlag(cfg, ret) ==
    IF ret.ok THEN ret.lib.cargo_metadata ELSE <<>>

\* the lines probe prints
Printed(cfg, ret) ==
    IF ret.ok /\ cfg.cargo_metadata THEN ret.lib.cargo_metadata ELSE <<>>

\* no probe call was just made
NoCall == [port_name |-> <<>>,
           ret |-> [ok |-> FALSE, error |-> "no call", detail |-> <<>>]]

(***************************************************************************)
(* vcpkg: the build script's inputs.                                       *)
(***************************************************************************)
\* the largest number of pairs lib_name and lib_names add to required_libs
MaxLibs == 2

PortNames == {<<"f", "o", "o">>, <<"z", "-", "l", "i", "b">>}
LibStems == {<<"a", ".", "b">>}
LibAndDllStems == {<<<<"i", "m", "p">>, <<"f", "o", "o">>>>}

VcpkgRoot == <<<<"C", ":">>, <<"v", "c", "p", "k", "g">>>>
Marker == Push(VcpkgRoot, <<".", "v", "c", "p", "k", "g", "-", "r", "o", "o",
    "t">>)
Triplets ==
    {<<"x", "6", "4", "-", "w", "i", "n", "d", "o", "w", "s">>, <<"x", "6",
        "4", "-", "w", "i", "n", "d", "o", "w", "s", "-", "s", "t", "a", "t",
        "i", "c">>, <<"x", "8", "6", "-", "w", "i", "n", "d", "o", "w", "s">>,
     <<"x", "8", "6", "-", "w", "i", "n", "d", "o", "w", "s", "-", "s", "t",
         "a", "t", "i", "c">>}
LibFile(triplet, name) ==
    <<<<"C", ":">>, <<"v", "c", "p", "k", "g">>, <<"i", "n", "s", "t", "a",
        "l", "l", "e", "d">>, triplet, <<"l", "i", "b">>, name>>
BinFile(triplet, name) ==
    <<<<"C", ":">>, <<"v", "c", "p", "k", "g">>, <<"i", "n", "s", "t", "a",
        "l", "l", "e", "d">>, triplet, <<"b", "i", "n">>, name>>

\* a tree where every port is installed for x64 and foo for x86
FullInstall ==
    {Marker}
      \cup {LibFile(t, n) : t \in {<<"x", "6", "4", "-", "w", "i", "n", "d",
          "o", "w", "s">>, <<"x", "6", "4", "-", "w", "i", "n", "d", "o",
          "w", "s", "-", "s", "t", "a", "t", "i", "c">>},
                            n \in {<<"f", "o", "o", ".", "l", "i", "b">>,
                                <<"z", "-", "l", "i", "b", ".", "l", "i",
                                "b">>, <<"i", "m", "p", ".", "l", "i", "b">>,
                                   <<"a", ".", "l", "i", "b">>}}
      \cup {BinFile(t, n) : t \in {<<"x", "6", "4", "-", "w", "i", "n", "d",
          "o", "w", "s">>, <<"x", "6", "4", "-", "w", "i", "n", "d", "o",
          "w", "s", "-", "s", "t", "a", "t", "i", "c">>},
                            n \in {<<"f", "o", "o", ".", "d", "l", "l">>,
                                <<"z", "-", "l", "i", "b", ".", "d", "l",
                                "l">>, <<"a", ".", "d", "l", "l">>}}
      \cup {LibFile(<<"x", "8", "6", "-", "w", "i", "n", "d", "o", "w",
          "s">>, <<"f", "o", "o", ".", "l", "i", "b">>),
            BinFile(<<"x", "8", "6", "-", "w", "i", "n", "d", "o", "w",
                "s">>, <<"f", "o", "o", ".", "d", "l", "l">>),
            LibFile(<<"x", "8", "6", "-", "w", "i", "n", "d", "o", "w", "s",
                "-", "s", "t", "a", "t", "i", "c">>, <<"f", "o", "o", ".",
                "l", "i", "b">>)}

NoUserTargets == [state |-> "absent", project |-> <<>>]
X64Target == Some(<<"x", "8", "6", "_", "6", "4", "-", "p", "c", "-", "w",
    "i", "n", "d", "o", "w", "s", "-", "m", "s", "v", "c">>)

\* a build for x86_64-pc-windows-msvc with VCPKG_ROOT set
RootedEnv(signals) ==
    [signals |-> signals, TARGET |-> X64Target,
     VCPKG_ROOT |-> Some(VcpkgRoot), LOCALAPPDATA |-> None,
     user_targets |-> NoUserTargets]

LinkageSignals ==
    {<<"F", "O", "O", "_", "S", "T", "A", "T", "I", "C">>, <<"F", "O", "O",
        "_", "D", "Y", "N", "A", "M", "I", "C">>, <<"V", "C", "P", "K", "G",
        "_", "A", "L", "L", "_", "S", "T", "A", "T", "I", "C">>,
     <<"V", "C", "P", "K", "G", "_", "A", "L", "L", "_", "D", "Y", "N", "A",
         "M", "I", "C">>}

\* every combination of the linkage variables of foo, and some of z-lib
LinkageWorlds ==
    [env : {RootedEnv(s) : s \in (SUBSET LinkageSignals)
                                   \cup {{<<"Z", "_", "L", "I", "B", "_",
                                       "S", "T", "A", "T", "I", "C">>},
                                         {<<"Z", "-", "L", "I", "B", "_",
                                             "S", "T", "A", "T", "I", "C">>},
                                         {<<"Z", "_", "L", "I", "B", "_",
                                             "D", "Y", "N", "A", "M", "I",
                                             "C">>,
                                          <<"V", "C", "P", "K", "G", "_",
                                              "A", "L", "L", "_", "S", "T",
                                              "A", "T", "I", "C">>}}},
     files : {FullInstall}]

\* which files of a triplet a partly installed tree holds: some of foo.lib,
\* foo.dll and imp.lib, or foo's pair and a pair whose names have two dots
InstallPatterns ==
    SUBSET {<<"lib", <<"f", "o", "o", ".", "l", "i", "b">>>>,
            <<"bin", <<"f", "o", "o", ".", "d", "l", "l">>>>,
            <<"lib", <<"i", "m", "p", ".", "l", "i", "b">>>>}
      \cup {{<<"lib", <<"f", "o", "o", ".", "l", "i", "b">>>>,
             <<"bin", <<"f", "o", "o", ".", "d", "l", "l">>>>} \cup dotted :
               dotted \in {{<<"lib", <<"a", ".", "l", "i", "b">>>>,
                            <<"bin", <<"a", ".", "d", "l", "l">>>>},
                           {<<"lib", <<"a", ".", "b", ".", "l", "i", "b">>>>,
                            <<"bin", <<"a", ".", "b", ".", "d", "l",
                                "l">>>>}}}

\* trees where some of the files are missing, the same ones in each of the
\* triplets
PartialInstalls(triplets) ==
    {{Marker} \cup {IF f[1] = "lib" THEN LibFile(t, f[2])
                                    ELSE BinFile(t, f[2]) :
                       f \in pattern, t \in triplets} :
        pattern \in InstallPatterns}

FileWorlds ==
    [env : {RootedEnv({})},
     files : PartialInstalls({<<"x", "6", "4", "-", "w", "i", "n", "d", "o",
                                 "w", "s">>,
                              <<"x", "6", "4", "-", "w", "i", "n", "d", "o",
                                  "w", "s", "-", "s", "t", "a", "t", "i",
                                  "c">>})]

LocalAppData == <<<<"C", ":">>, <<"U", "s", "e", "r", "s">>, <<"m", "e">>,
    <<"A", "p", "p", "D", "a", "t", "a">>, <<"L", "o", "c", "a", "l">>>>
UserTargets ==
    {NoUserTargets,
     [state |-> "unreadable", project |-> <<>>],
     [state |-> "no project", project |-> <<>>],
     [state |-> "project",
      project |-> <<<<"C", ":">>, <<"s", "c", "r", "i", "p", "t", "s">>,
          <<"m", "s", "b", "u", "i", "l", "d">>, <<"v", "c", "p", "k", "g",
          ".", "t", "a", "r", "g", "e", "t", "s">>>>],
     [state |-> "project",
      project |-> <<<<"C", ":">>, <<"v", "c", "p", "k", "g">>, <<"s", "c",
          "r", "i", "p", "t", "s">>, <<"b", "u", "i", "l", "d", "s", "y",
          "s", "t", "e", "m", "s">>,
                    <<"m", "s", "b", "u", "i", "l", "d">>, <<"v", "c", "p",
                        "k", "g", ".", "t", "a", "r", "g", "e", "t", "s">>>>]}

\* builds that opt out, builds for other targets, trees found through
\* vcpkg.user.targets or not found, and a tree without its marker
EarlyWorlds ==
    [env : {RootedEnv({<<"F", "O", "O", "_", "N", "O", "_", "V", "C", "P",
        "K", "G">>}), RootedEnv({<<"Z", "_", "L", "I", "B", "_", "N", "O",
        "_", "V", "C", "P", "K", "G">>})}
             \cup {[RootedEnv({}) EXCEPT !.TARGET = t] :
                     t \in {None, Some(<<"x", "8", "6", "_", "6", "4", "-",
                         "u", "n", "k", "n", "o", "w", "n", "-", "l", "i",
                         "n", "u", "x", "-", "g", "n", "u">>),
                            Some(<<"i", "6", "8", "6", "-", "p", "c", "-",
                                "w", "i", "n", "d", "o", "w", "s", "-", "m",
                                "s", "v", "c">>),
                            Some(<<"a", "a", "r", "c", "h", "6", "4", "-",
                                "p", "c", "-", "w", "i", "n", "d", "o", "w",
                                "s", "-", "m", "s", "v", "c">>)}}
             \cup {[RootedEnv({}) EXCEPT !.VCPKG_ROOT = None]}
             \cup {[RootedEnv({}) EXCEPT !.VCPKG_ROOT = None,
                                         !.LOCALAPPDATA = Some(LocalAppData),
                                         !.user_targets = u] :
                     u \in UserTargets},
     files : {FullInstall}]
      \cup [env : {RootedEnv({}), RootedEnv({<<"F", "O", "O", "_", "N", "O",
          "_", "V", "C", "P", "K", "G">>})},
            files : {FullInstall \ {Marker}}]

Worlds == LinkageWorlds \cup FileWorlds \cup EarlyWorlds

(***************************************************************************)
(* vcpkg: the build script's calls.                                        *)
(***************************************************************************)
ProbeIdle ==
    /\ config = ConfigNew
    /\ call = NoCall
    /\ stdout = <<>>

\* Config::new
Config_new ==
    /\ UNCHANGED <<cargoVars, buildVars>>
    /\ config' = ConfigNew
    /\ call' = NoCall
    /\ stdout' = <<>>
    /\ UNCHANGED <<env, files>>

\* Config::statik
Config_statik ==
    /\ UNCHANGED <<cargoVars, buildVars>>
    /\ \E statik \in BOOLEAN : config' = [config EXCEPT !.statik = Some(statik)]
    /\ call' = NoCall
    /\ stdout' = <<>>
    /\ UNCHANGED <<env, files>>

\* Config::lib_name
Config_lib_name ==
    /\ UNCHANGED <<cargoVars, buildVars>>
    /\ Len(config.required_libs) < MaxLibs
    /\ \E lib_stem \in LibStems :
          config' = [config EXCEPT !.required_libs =
                                       Append(@, LibNames(lib_stem, lib_stem))]
    /\ call' = NoCall
    /\ stdout' = <<>>
    /\ UNCHANGED <<env, files>>

\* Config::lib_names
Config_lib_names ==
    /\ UNCHANGED <<cargoVars, buildVars>>
    /\ Len(config.required_libs) < MaxLibs
    /\ \E stems \in LibAndDllStems :
          config' = [config EXCEPT !.required_libs =
                                       Append(@, LibNames(stems[1], stems[2]))]
    /\ call' = NoCall
    /\ stdout' = <<>>
    /\ UNCHANGED <<env, files>>

\* Config::cargo_metadata
Config_cargo_metadata ==
    /\ UNCHANGED <<cargoVars, buildVars>>
    /\ \E cargo_metadata \in BOOLEAN :
          config' = [config EXCEPT !.cargo_metadata = cargo_metadata]
    /\ call' = NoCall
    /\ stdout' = <<>>
    /\ UNCHANGED <<env, files>>

\* Config_probe changed: the pair for the port name is stored only after the
\* check of the opt-out variable
Config_probe_storesAfterOptOut ==
    /\ UNCHANGED <<cargoVars, buildVars>>
    /\ \E port_name \in PortNames :
          /\ config' = IF VarIsSome(env, envify(port_name) \o <<"_", "N",
              "O", "_", "V", "C", "P", "K", "G">>)
                       THEN config
                       ELSE WithDefaultLib(config, port_name)
          /\ call' = [port_name |-> port_name,
                      ret |-> ProbeReturn(WithDefaultLib(config, port_name),
                                          env, files, port_name)]
          /\ stdout' = Printed(config', call'.ret)
    /\ UNCHANGED <<env, files>>

\* Config::probe
Config_probe ==
    /\ UNCHANGED <<cargoVars, buildVars>>
    /\ \E port_name \in PortNames :
          /\ config' = WithDefaultLib(config, port_name)
          /\ call' = [port_name |-> port_name,
                      ret |-> ProbeReturn(config', env, files, port_name)]
          /\ stdout' = Printed(config', call'.ret)
    /\ UNCHANGED <<env, files>>

(***************************************************************************)
(* cargo-vcpkg: build, from cargo metadata to the git steps and the        *)
(* install.  pc is the position in build; git_url, vcpkg_ports,            *)
(* rev_tag_branch and vcpkg_triplet are build's variables of these names,  *)
(* bound to what process_metadata returned.  The vcpkg tree is the one at  *)
(* VcpkgRoot, whose marker file is Marker.                                 *)
(***************************************************************************)
\* build has run no command
BuildIdle == commands = <<>>

\* a package at position k that declares a git URL with a branch
LaterPackage(k) ==
    CHOOSE p \in Packages(k) :
        /\ p.metadata # None
        /\ p.metadata[1].git # None
        /\ p.metadata[1].branch # None
        /\ p.metadata[1].tag = None
        /\ p.metadata[1].rev = None
        /\ p.metadata[1].target = NoTargets

\* the workspaces build is run on: a first package with any declaration,
\* followed by packages that declare a git source; any package, or none, is
\* the root
BuildWorkspaces ==
    UNION {[packages : {<<first>>
                          \o [k \in 1..(n - 1) |-> LaterPackage(k + 1)] :
                            first \in Packages(1)},
            root : Opt(1..n)] : n \in 1..MaxPackages}

\* let metadata = cmd.exec()?
Build_metadata ==
    /\ pc = "build"
    /\ \E md \in BuildWorkspaces : metadata' = md
    /\ pc' = "metadata"
    /\ UNCHANGED <<target_triple, i, git_url, vcpkg_ports, rev_tag_branch,
                   vcpkg_triplet, result>>
    /\ UNCHANGED <<probeVars, buildVars>>

\* let (git_url, vcpkg_ports, rev_tag_branch, vcpkg_triplet, root_crate) =
\*     process_metadata(&metadata, &target_triple)?
Build_process_metadata ==
    /\ pc = "metadata"
    /\ result' = process_metadata(metadata, target_triple)
    /\ IF result'.ok
       THEN /\ pc' = "root"
            /\ git_url' = result'.git_url
            /\ vcpkg_ports' = result'.vcpkg_ports
            /\ rev_tag_branch' = result'.rev_tag_branch
            /\ vcpkg_triplet' = result'.vcpkg_triplet
       ELSE /\ pc' = "failed"
            /\ UNCHANGED <<git_url, vcpkg_ports, rev_tag_branch,
                           vcpkg_triplet>>
    /\ UNCHANGED <<metadata, target_triple, i>>
    /\ UNCHANGED <<probeVars, buildVars>>

\* if !vcpkg_root_file.exists(): the git URL is required, and git clone runs
Build_clone ==
    /\ pc = "root"
    /\ Marker \notin files
    /\ IF git_url = None
       THEN /\ pc' = "failed"
            /\ UNCHANGED <<files, commands>>
       ELSE /\ commands' = Append(commands, <<"git", "clone", Unwrap(git_url)>>)
            /\ \E success \in BOOLEAN :
                  IF success
                  THEN pc' = "config file" /\ files' = files \cup {Marker}
                  ELSE pc' = "failed" /\ files' = files
    /\ UNCHANGED <<metadata, target_triple, i, git_url, vcpkg_ports,
                   rev_tag_branch, vcpkg_triplet, result>>
    /\ UNCHANGED <<env, config, call, stdout>>

\* else: git fetch runs
Build_fetch ==
    /\ pc = "root"
    /\ Marker \in files
    /\ commands' = Append(commands, <<"git", "fetch">>)
    /\ \E success \in BOOLEAN :
          pc' = IF success THEN "config file" ELSE "failed"
    /\ UNCHANGED <<metadata, target_triple, i, git_url, vcpkg_ports,
                   rev_tag_branch, vcpkg_triplet, result>>
    /\ UNCHANGED probeVars

\* create a cargo-vcpkg.toml in the vcpkg tree
Build_config_file ==
    /\ pc = "config file"
    /\ \E created \in BOOLEAN :
          pc' = IF created THEN "checkout" ELSE "failed"
    /\ UNCHANGED <<metadata, target_triple, i, git_url, vcpkg_ports,
                   rev_tag_branch, vcpkg_triplet, result>>
    /\ UNCHANGED <<probeVars, buildVars>>

\* let rev_tag_branch = rev_tag_branch.unwrap(), which panics on None; the
\* match on the selector, and git checkout
Build_checkout ==
    /\ pc = "checkout"
    /\ IF rev_tag_branch = None
       THEN /\ pc' = "panicked"
            /\ UNCHANGED commands
       ELSE LET selector == Unwrap(rev_tag_branch)
                do_pull == CASE selector[1] = "Rev" -> FALSE
                             [] selector[1] = "Tag" -> FALSE
                             [] selector[1] = "Branch" -> TRUE
            IN  /\ commands' = Append(commands,
                                      <<"git", "checkout", selector[2]>>)
                /\ \E success \in BOOLEAN :
                      pc' = IF ~success THEN "failed"
                            ELSE IF do_pull THEN "pull" ELSE "update"
    /\ UNCHANGED <<metadata, target_triple, i, git_url, vcpkg_ports,
                   rev_tag_branch, vcpkg_triplet, result>>
    /\ UNCHANGED probeVars

\* if do_pull: git pull
Build_pull ==
    /\ pc = "pull"
    /\ commands' = Append(commands, <<"git", "pull">>)
    /\ \E success \in BOOLEAN :
          pc' = IF success THEN "update" ELSE "failed"
    /\ UNCHANGED <<metadata, target_triple, i, git_url, vcpkg_ports,
                   rev_tag_branch, vcpkg_triplet, result>>
    /\ UNCHANGED probeVars

\* vcpkg update, the bootstrap if required, and vcpkg install of the ports
Build_install ==
    /\ pc = "update"
    /\ commands' = Append(commands,
                          <<"vcpkg", "install", vcpkg_triplet, vcpkg_ports>>)
    /\ \E success \in BOOLEAN :
          pc' = IF success THEN "finished" ELSE "failed"
    /\ UNCHANGED <<metadata, target_triple, i, git_url, vcpkg_ports,
                   rev_tag_branch, vcpkg_triplet, result>>
    /\ UNCHANGED probeVars

(***************************************************************************)
(* The specifications: cargo-vcpkg's process_metadata on every workspace,  *)
(* a build script's calls to vcpkg in every world, and cargo-vcpkg's       *)
(* build.                                                                  *)
(***************************************************************************)
Init ==
    /\ CargoInit
    /\ env = RootedEnv({})
    /\ files = {Marker}
    /\ ProbeIdle
    /\ BuildIdle

Next ==
    \/ MetadataPackage
    \/ MetadataExec
    \/ ResolveRoot
    \/ NextPackage
    \/ ReturnOk

Spec == Init /\ [][Next]_vars

ProbeInit ==
    /\ CargoInit
    /\ target_triple = MsvcTriple
    /\ \E world \in Worlds :
          /\ env = world.env
          /\ files = world.files
    /\ ProbeIdle
    /\ BuildIdle

ProbeNext ==
    \/ Config_new
    \/ Config_statik
    \/ Config_lib_name
    \/ Config_lib_names
    \/ Config_cargo_metadata
    \/ Config_probe

ProbeSpec == ProbeInit /\ [][ProbeNext]_vars

\* build starts for either target, with or without the tree
BuildInit ==
    /\ target_triple \in TargetTriples
    /\ metadata = [packages |-> <<>>, root |-> None]
    /\ pc = "build"
    /\ i = 0
    /\ git_url = None
    /\ vcpkg_ports = <<>>
    /\ rev_tag_branch = None
    /\ vcpkg_triplet = None
    /\ result = NotReturned
    /\ env = RootedEnv({})
    /\ files \in {{}, {Marker}}
    /\ ProbeIdle
    /\ BuildIdle

BuildNext ==
    \/ Build_metadata
    \/ Build_process_metadata
    \/ Build_clone
    \/ Build_fetch
    \/ Build_config_file
    \/ Build_checkout
    \/ Build_pull
    \/ Build_install

BuildSpec == BuildInit /\ [][BuildNext]_vars

\* process_metadata returns what the loop, run in one piece, computes
ReturnsFunction ==
    pc = "done" => result = process_metadata(metadata, target_triple)

(***************************************************************************)
(* Properties of process_metadata.                                         *)
(***************************************************************************)
\* the elements of a sequence
Range(seq) == {seq[n] : n \in 1..Len(seq)}
\* the part of seq after its first n elements
DropFirst(seq, n) == SubSeq(seq, n + 1, Len(seq))
\* the declaration of the package at position k
DeclAt(k) == Unwrap(metadata.packages[k].metadata)
HasDecl(k) == IsSome(metadata.packages[k].metadata)
Positions == 1..Len(metadata.packages)
IsRootAt(k) == metadata.root = Some(k)
SelectorKeys == {"branch", "tag", "rev"}
SelectorsSet(v) == {f \in SelectorKeys : v[f] # None}

\* C1: when the loop processes a package that has an entry for the active
\* target, the ports it appends start with exactly the entry's dependency
\* list if that key is present (even when it is empty), and otherwise with
\* the general dependency list if present; whatever follows is the entry's
\* dev-dependency list, so that no general dependency is added next to an
\* override.
C1_OverrideDependenciesByPresence ==
    [][(/\ pc = "loop" /\ pc' = "loop" /\ i' = i + 1
        /\ HasDecl(i + 1)
        /\ target_triple \in DOMAIN DeclAt(i + 1).target)
       => LET v == DeclAt(i + 1)
              t == v.target[target_triple]
              deps == IF t.dependencies # None THEN t.dependencies[1]
                      ELSE IF v.dependencies # None THEN v.dependencies[1]
                      ELSE <<>>
              added == DropFirst(vcpkg_ports', Len(vcpkg_ports))
          IN  /\ Len(vcpkg_ports') >= Len(vcpkg_ports) + Len(deps)
              /\ SubSeq(vcpkg_ports', 1, Len(vcpkg_ports)) = vcpkg_ports
              /\ SubSeq(added, 1, Len(deps)) = deps
              /\ \/ DropFirst(added, Len(deps)) = <<>>
                 \/ /\ t.dev_dependencies # None
                    /\ DropFirst(added, Len(deps)) = t.dev_dependencies[1]
      ]_vars

\* C1 witness: a package with a general dependency list and a present but
\* empty dependency list for the active target has been processed and has
\* added nothing
C1_Witness ==
    /\ pc = "loop" /\ i = 1 /\ HasDecl(1)
    /\ target_triple \in DOMAIN DeclAt(1).target
    /\ DeclAt(1).target[target_triple].dependencies = Some(<<>>)
    /\ DeclAt(1).dependencies = Some(<<"a">>)
    /\ vcpkg_ports = <<>>

\* the names in the dev-dependency lists of a declaration: the general list
\* and the list of every target entry
DevNames(v) ==
    (IF v.dev_dependencies # None THEN Range(v.dev_dependencies[1]) ELSE {})
    \cup UNION {IF v.target[t].dev_dependencies # None
                THEN Range(v.target[t].dev_dependencies[1]) ELSE {}
                : t \in DOMAIN v.target}

\* C2: no dev-dependency of a non-root package is in the ports collected so
\* far or returned
C2_NoNonRootDevDependencies ==
    \A k \in Positions :
        (pc \notin {"exec", "start"} /\ ~IsRootAt(k) /\ HasDecl(k))
        => /\ DevNames(DeclAt(k)) \cap Range(vcpkg_ports) = {}
           /\ (pc = "done" /\ result.ok)
              => DevNames(DeclAt(k)) \cap Range(result.vcpkg_ports) = {}

\* C2 witness: a resolution returned the root's dev-dependencies while a
\* processed non-root package declares general dev-dependencies and
\* dev-dependencies for the active target
C2_Witness ==
    /\ pc = "done" /\ result.ok /\ "d" \in Range(result.vcpkg_ports)
    /\ \E k \in Positions :
          /\ ~IsRootAt(k) /\ HasDecl(k)
          /\ DeclAt(k).dev_dependencies # None
          /\ target_triple \in DOMAIN DeclAt(k).target
          /\ DeclAt(k).target[target_triple].dev_dependencies # None

SourceKeys == {"git", "branch", "tag", "rev"}
OtherValue == "other"
OtherTripletName == "x86-windows"

\* the workspace md with key of the declaration of package k replaced by val
WithKeyAt(md, k, key, val) ==
    LET v == Unwrap(md.packages[k].metadata)
    IN  [md EXCEPT !.packages[k].metadata = Some([v EXCEPT ![key] = val])]

\* the workspace md with the triplet of each target entry of package k
\* replaced by trip
WithTripletAt(md, k, trip) ==
    LET v == Unwrap(md.packages[k].metadata)
        entries == [t \in DOMAIN v.target |->
                       [v.target[t] EXCEPT !.triplet = trip]]
    IN  [md EXCEPT !.packages[k].metadata = Some([v EXCEPT !.target = entries])]

\* C3: the outcome does not change when one git source key of a non-root
\* package is removed or set to another value, nor when the triplets of its
\* target entries are (any two workspaces that differ only in such keys are
\* linked by a chain of these replacements), and the ambiguous-revision
\* failure only comes from the root package
C3_RootOnlyFieldsNonInterference ==
    pc = "done" =>
        /\ \A k \in Positions :
              (~IsRootAt(k) /\ HasDecl(k)) =>
                  /\ \A key \in SourceKeys : \A val \in Opt({OtherValue}) :
                        process_metadata(WithKeyAt(metadata, k, key, val),
                                         target_triple) = result
                  /\ \A trip \in Opt({OtherTripletName}) :
                        process_metadata(WithTripletAt(metadata, k, trip),
                                         target_triple) = result
        /\ result = [ok |-> FALSE,
                     err |-> "must specify one of branch,rev,tag for git source"]
           => \E k \in Positions :
                 /\ IsRootAt(k) /\ HasDecl(k)
                 /\ DeclAt(k).git # None
                 /\ Cardinality(SelectorsSet(DeclAt(k))) # 1

\* C3 witness: a resolution succeeded although a non-root package declares a
\* git source with no selector or with several
C3_Witness ==
    /\ pc = "done" /\ result.ok
    /\ \E k \in Positions :
          /\ ~IsRootAt(k) /\ HasDecl(k)
          /\ DeclAt(k).git # None
          /\ Cardinality(SelectorsSet(DeclAt(k))) = 2

\* C4: on a virtual manifest process_metadata fails at once with the no-root
\* error: no package has been examined and nothing has been collected
C4_VirtualManifestFails ==
    [][(pc = "start" /\ metadata.root = None)
       => /\ pc' = "done"
          /\ result' = [ok |-> FALSE,
                        err |-> "cannot run on a virtual manifest, this command requires running against an actual package in this workspace."]
          /\ i' = 0 /\ vcpkg_ports' = <<>> /\ git_url' = None
          /\ rev_tag_branch' = None /\ vcpkg_triplet' = None
          /\ metadata' = metadata
      ]_vars

\* C4 witness: the no-root error was returned for a workspace whose packages
\* declare dependencies and a git source
C4_Witness ==
    /\ pc = "done" /\ metadata.root = None /\ ~result.ok /\ i = 0
    /\ \E k \in Positions :
          HasDecl(k) /\ DeclAt(k).dependencies # None /\ DeclAt(k).git # None

\* the selector the keys of v give when exactly one is set
TheSelector(v) ==
    CASE SelectorsSet(v) = {"branch"} -> <<"Branch", v.branch[1]>>
      [] SelectorsSet(v) = {"tag"} -> <<"Tag", v.tag[1]>>
      [] SelectorsSet(v) = {"rev"} -> <<"Rev", v.rev[1]>>

\* C5: when the root package declares a git URL, the resolution returns it
\* with the matching selector if exactly one of branch, tag, rev is set, and
\* otherwise fails with the ambiguous-revision error, which carries no ports
C5_RootSourceLocator ==
    \A k \in Positions :
        (pc = "done" /\ IsRootAt(k) /\ HasDecl(k) /\ DeclAt(k).git # None)
        => IF Cardinality(SelectorsSet(DeclAt(k))) = 1
           THEN /\ result.ok
                /\ result.git_url = DeclAt(k).git
                /\ result.rev_tag_branch = Some(TheSelector(DeclAt(k)))
           ELSE /\ result = [ok |-> FALSE,
                             err |-> "must specify one of branch,rev,tag for git source"]
                /\ "vcpkg_ports" \notin DOMAIN result

\* C5 witness: the ambiguous-revision error was returned after ports of an
\* earlier package had been collected
C5_Witness ==
    /\ pc = "done" /\ ~result.ok /\ metadata.root = Some(2)
    /\ vcpkg_ports = <<"a">>
    /\ HasDecl(2) /\ DeclAt(2).git # None
    /\ SelectorsSet(DeclAt(2)) = {"branch", "rev"}


\* the workspace of test combine_deps_from_all_crates without the target entry
\* and the dev-dependencies of the dependency: the root first, then the
\* dependency
ScenarioPackages ==
    << [id |-> 1,
        metadata |-> Some([target |-> [t \in {MsvcTriple} |->
                                          [triplet |-> Some(TripletName),
                                           dependencies |-> None,
                                           dev_dependencies |-> Some(<<"b",
                                               "c">>)]],
                           branch |-> None, rev |-> None, git |-> None,
                           tag |-> None,
                           dependencies |-> Some(<<"a">>),
                           dev_dependencies |-> Some(<<"d">>)])],
       [id |-> 2,
        metadata |-> Some([target |-> NoTargets,
                           branch |-> None, rev |-> None, git |-> None,
                           tag |-> None,
                           dependencies |-> Some(<<"m">>),
                           dev_dependencies |-> None])] >>
ScenarioMetadata == [packages |-> ScenarioPackages, root |-> Some(1)]

\* C6 as stated: scenario A returns the ports a, m, b, c in this order and
\* the triplet of the target entry
C6_ScenarioA_Original ==
    (pc = "done" /\ metadata = ScenarioMetadata /\ target_triple = MsvcTriple)
    => /\ result.ok
       /\ result.vcpkg_ports = <<"a", "m", "b", "c">>
       /\ result.vcpkg_triplet = Some("x64-windows-static-md")

\* C6 amended: scenario A returns the ports a, b, c, m in this order (the
\* root's dependencies and dev-dependencies, then the dependency's) and the
\* triplet of the target entry
C6_ScenarioA ==
    (pc = "done" /\ metadata = ScenarioMetadata /\ target_triple = MsvcTriple)
    => /\ result.ok
       /\ result.vcpkg_ports = <<"a", "b", "c", "m">>
       /\ result.vcpkg_triplet = Some("x64-windows-static-md")

\* C6 witness: scenario A has been resolved
C6_Witness ==
    /\ pc = "done" /\ metadata = ScenarioMetadata /\ target_triple = MsvcTriple
    /\ result.ok /\ Len(result.vcpkg_ports) = 4

\* C7: scenario B, the workspace of scenario A resolved for a target without
\* entry, returns the ports a, d, m in this order and no triplet
C7_ScenarioB ==
    (pc = "done" /\ metadata = ScenarioMetadata /\ target_triple = "")
    => /\ result.ok
       /\ result.vcpkg_ports = <<"a", "d", "m">>
       /\ result.vcpkg_triplet = None

\* C7 witness: scenario B has been resolved
C7_Witness ==
    /\ pc = "done" /\ metadata = ScenarioMetadata /\ target_triple = ""
    /\ result.ok /\ Len(result.vcpkg_ports) = 3

(***************************************************************************)
(* Properties of Config::probe.                                            *)
(***************************************************************************)
\* a probe call was just made
Probed == call.port_name # <<>>
Failed(variant) == Probed /\ ~call.ret.ok /\ call.ret.error = variant

\* the path is a file directly in a directory of that name
IsUnder(dir, path) == Len(path) >= 2 /\ path[Len(path) - 1] = dir
BinFiles(fs) == {f \in fs : IsUnder(<<"b", "i", "n">>, f)}

\* every file of every world
Tree == UNION {world.files : world \in Worlds}

\* the prefix of the linkage variables of a port
SignalPrefix(port_name) == IF port_name = <<"f", "o", "o">> THEN <<"F", "O",
    "O">> ELSE <<"Z", "_", "L", "I", "B">>

\* the documented linkage: the override, else PREFIX_STATIC, else
\* PREFIX_DYNAMIC, else VCPKG_ALL_STATIC, else dynamic
Selected(statik, signals, prefix) ==
    IF IsSome(statik) THEN Unwrap(statik)
    ELSE IF (prefix \o <<"_", "S", "T", "A", "T", "I",
        "C">>) \in signals THEN TRUE
    ELSE IF (prefix \o <<"_", "D", "Y", "N", "A", "M", "I",
        "C">>) \in signals THEN FALSE
    ELSE IF <<"V", "C", "P", "K", "G", "_", "A", "L", "L", "_", "S", "T",
        "A", "T", "I", "C">> \in signals THEN TRUE
    ELSE FALSE

\* C8: for the Config's override, if any, and every combination of
\* FOO_STATIC, FOO_DYNAMIC, VCPKG_ALL_STATIC and VCPKG_ALL_DYNAMIC, is_static
\* for foo is the override if one was set, else static if FOO_STATIC is set, else dynamic if FOO_DYNAMIC is
\* set, else static if VCPKG_ALL_STATIC is set, else dynamic; and the Library a
\* successful probe returns has that linkage.
C8_LinkageSelection ==
    /\ \A signals \in SUBSET LinkageSignals :
          is_static(config, RootedEnv(signals), <<"f", "o", "o">>)
            = Selected(config.statik, signals, <<"F", "O", "O">>)
    /\ (Probed /\ call.ret.ok) =>
          call.ret.lib.is_static
            = Selected(config.statik, env.signals,
                       SignalPrefix(call.port_name))

\* VCPKG_ALL_STATIC and FOO_DYNAMIC are set, no override: foo is linked
\* dynamically
C8_Witness ==
    /\ Probed
    /\ call.port_name = <<"f", "o", "o">>
    /\ config.statik = None
    /\ env.signals = {<<"V", "C", "P", "K", "G", "_", "A", "L", "L", "_",
        "S", "T", "A", "T", "I", "C">>, <<"F", "O", "O", "_", "D", "Y", "N",
        "A", "M", "I", "C">>}
    /\ call.ret.ok
    /\ ~call.ret.lib.is_static

\* trees that differ from fs only in the files under bin\: no such file,
\* every such file of the tree, and each single file of the tree in the bin\
\* directory of x64-windows-static
BinVariants(fs) ==
    {fs \ BinFiles(fs), fs \cup BinFiles(Tree)}
      \cup {(fs \ BinFiles(fs)) \cup {f} :
               f \in {g \in BinFiles(Tree) :
                        g[4] = <<"x", "6", "4", "-", "w", "i", "n", "d", "o",
                                 "w", "s", "-", "s", "t", "a", "t", "i",
                                 "c">>}}

\* C9: under static linkage what probe returns is the same for every set of
\* files under bin\, and found_dlls is empty; under dynamic linkage probe
\* succeeds only with, for every requested pair, a file under lib\ and a file
\* under bin\ that exist and without which it fails.
C9_RuntimeArtifactsOnlyIfDynamic ==
    Probed =>
      LET port_name == call.port_name
          Returns(fs) == ProbeReturn(config, env, fs, port_name)
          pairs == 1..Len(config.required_libs)
      IN  /\ is_static(config, env, port_name) =>
                /\ \A fs \in BinVariants(files) : Returns(fs) = call.ret
                /\ call.ret.ok => call.ret.lib.found_dlls = <<>>
          /\ (call.ret.ok /\ ~call.ret.lib.is_static) =>
                /\ ~is_static(config, env, port_name)
                /\ DOMAIN call.ret.lib.found_libs = pairs
                /\ DOMAIN call.ret.lib.found_dlls = pairs
                /\ \A k \in pairs :
                      /\ call.ret.lib.found_libs[k] \in files
                      /\ IsUnder(<<"l", "i", "b">>,
                          call.ret.lib.found_libs[k])
                      /\ ~Returns(files \ {call.ret.lib.found_libs[k]}).ok
                      /\ call.ret.lib.found_dlls[k] \in files
                      /\ IsUnder(<<"b", "i", "n">>,
                          call.ret.lib.found_dlls[k])
                      /\ ~Returns(files \ {call.ret.lib.found_dlls[k]}).ok

\* a static probe for two pairs succeeds in a tree with no file under bin\
C9_Witness ==
    /\ Probed
    /\ call.ret.ok
    /\ call.ret.lib.is_static
    /\ Len(config.required_libs) = 2
    /\ BinFiles(files) = {}

\* a dynamic probe for two pairs succeeds
C9_WitnessDynamic ==
    /\ Probed
    /\ call.ret.ok
    /\ ~call.ret.lib.is_static
    /\ Len(call.ret.lib.found_dlls) = 2

\* the artifacts in the order they are verified: pair1.lib, pair1.dll,
\* pair2.lib, pair2.dll, ..., the .dll only under dynamic linkage
VerificationOrder(cfg, e, port_name) ==
    LET static_lib == is_static(cfg, e, port_name)
        base == BasePath(find_vcpkg_root(e).path, msvc_target(e).arch,
                         static_lib)
        lib(k) == LibLocation(Push(base, <<"l", "i", "b">>),
            cfg.required_libs[k])
        dll(k) == DllLocation(Push(base, <<"b", "i", "n">>),
            cfg.required_libs[k])
    IN  IF static_lib
        THEN [n \in 1..Len(cfg.required_libs) |-> lib(n)]
        ELSE [n \in 1..(2 * Len(cfg.required_libs)) |->
                 IF n % 2 = 1 THEN lib((n + 1) \div 2) ELSE dll(n \div 2)]

\* scenario C: foo with no name overrides, dynamic linkage, lib\foo.lib
\* present and bin\foo.dll absent
ScenarioC ==
    /\ Probed
    /\ call.port_name = <<"f", "o", "o">>
    /\ config.required_libs = <<LibNames(<<"f", "o", "o">>, <<"f", "o",
        "o">>)>>
    /\ config.statik = None
    /\ env = RootedEnv({})
    /\ Marker \in files
    /\ LibFile(<<"x", "6", "4", "-", "w", "i", "n", "d", "o", "w", "s">>,
        <<"f", "o", "o", ".", "l", "i", "b">>) \in files
    /\ BinFile(<<"x", "6", "4", "-", "w", "i", "n", "d", "o", "w", "s">>,
        <<"f", "o", "o", ".", "d", "l", "l">>) \notin files

\* C10: a LibNotFound error carries the path of the first artifact, in the
\* order pair1.lib, pair1.dll, pair2.lib, pair2.dll, ... (no .dll under static
\* linkage), that does not exist; in scenario C it is the path under bin\.
C10_FirstMissingArtifact ==
    /\ Failed("LibNotFound") =>
          LET order == VerificationOrder(config, env, call.port_name)
          IN  \E n \in DOMAIN order :
                 /\ order[n] \notin files
                 /\ \A m \in 1..(n - 1) : order[m] \in files
                 /\ call.ret.detail = Display(order[n])
    /\ ScenarioC =>
          call.ret = Error("LibNotFound",
                           <<"C", ":", "\\", "v", "c", "p", "k", "g", "\\",
                               "i", "n", "s", "t", "a", "l", "l", "e", "d",
                               "\\", "x", "6", "4", "-", "w", "i", "n", "d",
                               "o", "w", "s", "\\", "b", "i", "n", "\\", "f",
                               "o", "o", ".", "d", "l", "l">>)

\* scenario C happened, and so did a failure on the second pair's .dll
C10_Witness == ScenarioC /\ Failed("LibNotFound")

C10_WitnessSecondPair ==
    /\ Failed("LibNotFound")
    /\ Len(config.required_libs) = 2
    /\ LET order == VerificationOrder(config, env, call.port_name)
       IN  Len(order) = 4 /\ call.ret.detail = Display(order[4])

\* the targets and tree locations of every world, and the trees of every
\* world
EnvShapes == {[world.env EXCEPT !.signals = {}] : world \in Worlds}
Trees == {world.files : world \in Worlds} \cup {{}}

\* the opt-out variable of a port
OptOut(port_name) == SignalPrefix(port_name) \o <<"_", "N", "O", "_", "V",
    "C", "P", "K", "G">>

\* C11: if FOO_NO_VCPKG is set for port foo (Z_LIB_NO_VCPKG for z-lib), probe
\* fails with EnvNoPkgConfig carrying that name, and it returns the same for
\* every target, every way of locating the tree and every tree.
C11_OptOutFirst ==
    (Probed /\ OptOut(call.port_name) \in env.signals) =>
        /\ call.ret = Error("EnvNoPkgConfig", OptOut(call.port_name))
        /\ \A e \in EnvShapes, fs \in Trees :
              ProbeReturn(config, [e EXCEPT !.signals = env.signals], fs,
                          call.port_name) = call.ret

\* foo was probed with FOO_NO_VCPKG set in a tree without marker
C11_Witness ==
    /\ Probed
    /\ call.port_name = <<"f", "o", "o">>
    /\ <<"F", "O", "O", "_", "N", "O", "_", "V", "C", "P", "K",
        "G">> \in env.signals
    /\ Marker \notin files
    /\ call.ret = Error("EnvNoPkgConfig", <<"F", "O", "O", "_", "N", "O",
        "_", "V", "C", "P", "K", "G">>)

\* C12: a probe call that follows a probe call for the same port name on the
\* same Config, in the same environment and tree, returns what the first
\* returned: the same error, or a Library equal in every field.
C12_ProbeIdempotent ==
    [][(Probed /\ Probed' /\ call'.port_name = call.port_name)
          => call'.ret = call.ret]_vars

\* z-lib was probed with success on a Config without overrides, which now
\* holds the pair that call worked with and on which a second call returns
\* the same Library
C12_Witness ==
    /\ Probed
    /\ call.port_name = <<"z", "-", "l", "i", "b">>
    /\ config.required_libs = <<LibNames(<<"z", "-", "l", "i", "b">>, <<"z",
        "-", "l", "i", "b">>)>>
    /\ call.ret.ok
    /\ Len(call.ret.lib.cargo_metadata) = 3
    /\ ProbeReturn(WithDefaultLib(config, call.port_name), env, files,
                   call.port_name) = call.ret

\* the triplet derived from the target
Variant(target) ==
    IF StartsWith(target, <<"x", "8", "6", "_", "6", "4", "-">>) THEN <<"x",
        "6", "4", "-", "w", "i", "n", "d", "o", "w", "s">>
    ELSE <<"x", "8", "6", "-", "w", "i", "n", "d", "o", "w", "s">>

\* {tree_root}\installed\{variant}[-static] for the tree C:\vcpkg of the
\* worlds
BaseDirectory(target, static) ==
    <<<<"C", ":">>, <<"v", "c", "p", "k", "g">>, <<"i", "n", "s", "t", "a",
        "l", "l", "e", "d">>,
      Variant(target) \o (IF static THEN <<"-", "s", "t", "a", "t", "i",
          "c">> ELSE <<>>)>>

\* the directory a file is in
Parent(path) == SubSeq(path, 1, Len(path) - 1)

\* C13: a successful probe returns include_paths = [base\include] and
\* link_paths = [base\lib] and has found every .lib in base\lib and every
\* .dll in base\bin, where base is tree_root\installed\variant, with -static
\* appended to the variant under static linkage; a missing artifact is
\* reported in base\lib or base\bin.
C13_BaseDirectory ==
    LET target == Unwrap(env.TARGET)
        static == Selected(config.statik, env.signals,
                           SignalPrefix(call.port_name))
        base == BaseDirectory(target, static)
    IN  /\ (Probed /\ call.ret.ok) =>
              /\ call.ret.lib.include_paths = <<Push(base, <<"i", "n", "c",
                  "l", "u", "d", "e">>)>>
              /\ call.ret.lib.link_paths = <<Push(base, <<"l", "i", "b">>)>>
              /\ \A k \in DOMAIN call.ret.lib.found_libs :
                    Parent(call.ret.lib.found_libs[k]) = Push(base, <<"l",
                        "i", "b">>)
              /\ \A k \in DOMAIN call.ret.lib.found_dlls :
                    Parent(call.ret.lib.found_dlls[k]) = Push(base, <<"b",
                        "i", "n">>)
        /\ Failed("LibNotFound") =>
              \/ StartsWith(call.ret.detail,
                            Display(Push(base, <<"l", "i",
                                "b">>)) \o <<"\\">>)
              \/ /\ ~static
                 /\ StartsWith(call.ret.detail,
                               Display(Push(base, <<"b", "i",
                                   "n">>)) \o <<"\\">>)

\* a static probe for an x86 target found foo in
\* C:\vcpkg\installed\x86-windows-static
C13_Witness ==
    /\ Probed
    /\ call.ret.ok
    /\ call.ret.lib.is_static
    /\ env.TARGET = Some(<<"i", "6", "8", "6", "-", "p", "c", "-", "w", "i",
        "n", "d", "o", "w", "s", "-", "m", "s", "v", "c">>)
    /\ call.ret.lib.link_paths
         = << <<<<"C", ":">>, <<"v", "c", "p", "k", "g">>, <<"i", "n", "s",
             "t", "a", "l", "l", "e", "d">>, <<"x", "8", "6", "-", "w", "i",
             "n", "d", "o", "w", "s", "-", "s", "t", "a", "t", "i", "c">>,
                <<"l", "i", "b">>>> >>
    /\ call.ret.lib.include_paths
         = << <<<<"C", ":">>, <<"v", "c", "p", "k", "g">>, <<"i", "n", "s",
             "t", "a", "l", "l", "e", "d">>, <<"x", "8", "6", "-", "w", "i",
             "n", "d", "o", "w", "s", "-", "s", "t", "a", "t", "i", "c">>,
                <<"i", "n", "c", "l", "u", "d", "e">>>> >>

\* the link-search directive for a directory
SearchDirective(path) == <<"c", "a", "r", "g", "o", ":", "r", "u", "s", "t",
    "c", "-", "l", "i", "n", "k", "-", "s", "e", "a", "r", "c", "h", "=",
    "n", "a", "t", "i", "v", "e", "=">> \o Display(path)

\* the link directive for a link stem
LinkDirective(static, lib_stem) ==
    (IF static THEN <<"c", "a", "r", "g", "o", ":", "r", "u", "s", "t", "c",
        "-", "l", "i", "n", "k", "-", "l", "i", "b", "=", "s", "t", "a", "t",
        "i", "c", "=">>
     ELSE <<"c", "a", "r", "g", "o", ":", "r", "u", "s", "t", "c", "-", "l",
         "i", "n", "k", "-", "l", "i", "b", "=">>) \o lib_stem

\* C14: the cargo_metadata of a successful probe is the link-search
\* directive for lib\, under dynamic linkage the link-search directive for
\* bin\, then one link directive per requested pair in request order, tagged
\* static= under static linkage; repeated stems are kept.  For foo alone under
\* dynamic linkage for x64 these are the three lines written out below.
C14_DirectiveOrder ==
    (Probed /\ call.ret.ok) =>
        LET lib == call.ret.lib
            base == Parent(lib.link_paths[1])
            search == IF lib.is_static
                      THEN <<SearchDirective(Push(base, <<"l", "i", "b">>))>>
                      ELSE <<SearchDirective(Push(base, <<"l", "i", "b">>)),
                             SearchDirective(Push(base, <<"b", "i", "n">>))>>
            links == [k \in DOMAIN config.required_libs |->
                         LinkDirective(lib.is_static,
                                       config.required_libs[k].lib_stem)]
        IN  /\ lib.cargo_metadata = search \o links
            /\ Len(lib.cargo_metadata)
                 = (IF lib.is_static THEN 1 ELSE 2) + Len(config.required_libs)
            /\ (/\ config.required_libs = <<LibNames(<<"f", "o", "o">>,
                   <<"f", "o", "o">>)>>
                /\ ~lib.is_static
                /\ env.TARGET = X64Target) =>
                  lib.cargo_metadata
                    = <<<<"c", "a", "r", "g", "o", ":", "r", "u", "s", "t",
                        "c", "-", "l", "i", "n", "k", "-", "s", "e", "a",
                        "r", "c", "h", "=", "n", "a", "t", "i", "v", "e",
                        "=", "C", ":", "\\", "v", "c", "p", "k", "g", "\\",
                        "i", "n", "s", "t", "a", "l", "l", "e", "d", "\\",
                        "x", "6", "4", "-", "w", "i", "n", "d", "o", "w",
                        "s", "\\", "l", "i", "b">>,
                        <<"c", "a", "r", "g", "o", ":", "r", "u", "s", "t",
                            "c", "-", "l", "i", "n", "k", "-", "s", "e", "a",
                            "r", "c", "h", "=", "n", "a", "t", "i", "v", "e",
                            "=", "C", ":", "\\", "v", "c", "p", "k", "g",
                            "\\", "i", "n", "s", "t", "a", "l", "l", "e",
                            "d", "\\", "x", "6", "4", "-", "w", "i", "n",
                            "d", "o", "w", "s", "\\", "b", "i", "n">>,
                        <<"c", "a", "r", "g", "o", ":", "r", "u", "s", "t",
                            "c", "-", "l", "i", "n", "k", "-", "l", "i", "b",
                            "=", "f", "o", "o">>>>

\* a static probe for the pair (imp, foo) requested twice returned three
\* lines, two of them the same link directive
C14_Witness ==
    /\ Probed
    /\ call.ret.ok
    /\ call.ret.lib.is_static
    /\ config.required_libs
         = <<LibNames(<<"i", "m", "p">>, <<"f", "o", "o">>),
             LibNames(<<"i", "m", "p">>, <<"f", "o", "o">>)>>
    /\ Len(call.ret.lib.cargo_metadata) = 3
    /\ call.ret.lib.cargo_metadata[2] = <<"c", "a", "r", "g", "o", ":", "r",
        "u", "s", "t", "c", "-", "l", "i", "n", "k", "-", "l", "i", "b", "=",
        "s", "t", "a", "t", "i", "c", "=", "i", "m", "p">>
    /\ call.ret.lib.cargo_metadata[3] = call.ret.lib.cargo_metadata[2]

\* the lines of a sequence after its first n
Tail_n(seq, n) == [k \in 1..(Len(seq) - n) |-> seq[k + n]]

C16_PrintsOnSuccessOnly ==
    Probed =>
        /\ (call.ret.ok /\ config.cargo_metadata) =>
              stdout = call.ret.lib.cargo_metadata
        /\ ~call.ret.ok => stdout = <<>>
        /\ ~config.cargo_metadata => stdout = <<>>
        /\ call.ret.ok => Len(call.ret.lib.cargo_metadata) >= 2

\* with cargo_metadata(false) a probe succeeded, printed nothing and returned
\* three lines
C16_Witness ==
    /\ Probed
    /\ call.ret.ok
    /\ ~config.cargo_metadata
    /\ stdout = <<>>
    /\ Len(call.ret.lib.cargo_metadata) = 3

\* a probe printed its three lines
C16_WitnessPrinted ==
    /\ Probed
    /\ call.ret.ok
    /\ Len(stdout) = 3

\* a probe failed on its second pair and printed nothing
C16_WitnessLaterPair ==
    /\ Failed("LibNotFound")
    /\ config.cargo_metadata
    /\ Len(config.required_libs) = 2
    /\ LET order == VerificationOrder(config, env, call.port_name)
       IN  order[1] \in files /\ order[Len(order)] \notin files
    /\ stdout = <<>>

\* the name of a file
FileName(path) == path[Len(path)]

\* C17: the file probe verifies under lib\ for a pair is named
\* {link-stem}.lib and the file it verifies under bin\ is named
\* {runtime-stem}.dll, also for stems that contain a '.': the files a
\* successful probe has found have these names, and a LibNotFound error names
\* a path that ends in such a name.
C17_WholeStemNames ==
    /\ (Probed /\ call.ret.ok) =>
          /\ \A k \in DOMAIN call.ret.lib.found_libs :
                FileName(call.ret.lib.found_libs[k])
                  = config.required_libs[k].lib_stem \o <<".", "l", "i", "b">>
          /\ \A k \in DOMAIN call.ret.lib.found_dlls :
                FileName(call.ret.lib.found_dlls[k])
                  = config.required_libs[k].dll_stem \o <<".", "d", "l", "l">>
    /\ Failed("LibNotFound") =>
          \E name \in UNION {{config.required_libs[k].lib_stem \o <<".", "l",
              "i", "b">>,
                               config.required_libs[k].dll_stem \o <<".",
                                   "d", "l", "l">>} :
                                 k \in DOMAIN config.required_libs} :
             /\ Len(call.ret.detail) > Len(name)
             /\ SubSeq(call.ret.detail, Len(call.ret.detail) - Len(name),
                       Len(call.ret.detail)) = <<"\\">> \o name

\* the tree that differs from fs only in the presence of the marker
Twin(fs) == IF Marker \in fs THEN fs \ {Marker} ELSE fs \cup {Marker}

\* what probe returns for a located tree without marker
NoMarkerError ==
    Error("VcpkgNotFound",
          <<"C", "o", "u", "l", "d", " ", "n", "o", "t", " ", "f", "i", "n",
              "d", " ", "v", "c", "p", "k", "g", " ", "r", "o", "o", "t",
              " ", "a", "t", " ", "C", ":", "\\", "v", "c", "p", "k", "g",
              "\\", ".", "v", "c", "p", "k", "g", "-", "r", "o", "o", "t">>)

\* the port is opted out, the target is not supported or the tree is not
\* located
FailsEarly(e, port_name) ==
    \/ OptOut(port_name) \in e.signals
    \/ IsNone(e.TARGET)
    \/ ~Contains(Unwrap(e.TARGET), <<"-", "p", "c", "-", "w", "i", "n", "d",
        "o", "w", "s", "-", "m", "s", "v", "c">>)
    \/ ~find_vcpkg_root(e).ok

\* C18 as stated: probe returns the same for two trees that differ only in
\* the presence of the marker
C18_MarkerIndependent_Original ==
    Probed =>
        ProbeReturn(config, env, Twin(files), call.port_name) = call.ret

\* C18 amended: for two trees that differ only in the presence of the marker
\* probe returns the same if the port is opted out, the target is not
\* supported or the tree is not located; otherwise it returns VcpkgNotFound
\* naming the marker path for the tree without the marker, and something else
\* for the tree with it.
C18_MarkerDecides ==
    Probed =>
        LET twin == ProbeReturn(config, env, Twin(files), call.port_name)
        IN  IF FailsEarly(env, call.port_name) THEN twin = call.ret
            ELSE IF Marker \in files
            THEN twin = NoMarkerError /\ call.ret # NoMarkerError
            ELSE call.ret = NoMarkerError /\ twin # NoMarkerError

\* a probe succeeded in a tree with the marker
C18_Witness ==
    /\ Probed
    /\ Marker \in files
    /\ call.ret.ok
    /\ ProbeReturn(config, env, files \ {Marker}, call.port_name)
         = NoMarkerError

\* C19: for a port that is not opted out, a supported target and a located
\* tree without marker, probe fails with VcpkgNotFound naming the marker
\* path, and does so whatever the linkage override, the linkage variables
\* and the artifacts in the tree, also when every artifact exists and when
\* none does.
C19_NoMarkerFails ==
    (Probed /\ ~FailsEarly(env, call.port_name) /\ Marker \notin files) =>
        /\ call.ret = NoMarkerError
        /\ \A statik \in Opt(BOOLEAN),
              signals \in {{}, {<<"F", "O", "O", "_", "S", "T", "A", "T",
                  "I", "C">>}, {<<"V", "C", "P", "K", "G", "_", "A", "L",
                  "L", "_", "S", "T", "A", "T", "I", "C">>}},
              fs \in {{}, files, FullInstall \ {Marker}} :
              ProbeReturn([config EXCEPT !.statik = statik],
                          [env EXCEPT !.signals = signals], fs,
                          call.port_name) = NoMarkerError

\* foo was probed in a tree that holds foo.lib and foo.dll but no marker
C19_Witness ==
    /\ Probed
    /\ call.port_name = <<"f", "o", "o">>
    /\ config.required_libs = <<LibNames(<<"f", "o", "o">>, <<"f", "o",
        "o">>)>>
    /\ env = RootedEnv({})
    /\ Marker \notin files
    /\ LibFile(<<"x", "6", "4", "-", "w", "i", "n", "d", "o", "w", "s">>,
        <<"f", "o", "o", ".", "l", "i", "b">>) \in files
    /\ BinFile(<<"x", "6", "4", "-", "w", "i", "n", "d", "o", "w", "s">>,
        <<"f", "o", "o", ".", "d", "l", "l">>) \in files
    /\ call.ret = NoMarkerError

\* TARGET is set and contains -pc-windows-msvc
Supported(e) ==
    IsSome(e.TARGET) /\ Contains(Unwrap(e.TARGET), <<"-", "p", "c", "-", "w",
                        "i", "n", "d", "o", "w", "s", "-", "m", "s", "v",
                        "c">>)

\* C20: for a port that is not opted out, probe fails with NotMSVC if TARGET
\* is unset or does not contain -pc-windows-msvc, however the tree is or is
\* not located and whatever it holds; for every other TARGET it does not fail
\* with NotMSVC, and a success links from the triplet x64-windows if TARGET
\* starts with x86_64- and x86-windows otherwise (with -static appended under
\* static linkage).
C20_TargetDecides ==
    (Probed /\ OptOut(call.port_name) \notin env.signals) =>
        IF ~Supported(env)
        THEN /\ call.ret = [ok |-> FALSE, error |-> "NotMSVC", detail |-> <<
                >>]
             /\ \A e \in EnvShapes, fs \in {{}, files} :
                   ProbeReturn(config, [e EXCEPT !.TARGET = env.TARGET], fs,
                               call.port_name) = call.ret
        ELSE /\ ~call.ret.ok => call.ret.error # "NotMSVC"
             /\ call.ret.ok =>
                   call.ret.lib.link_paths[1][4]
                     = (IF SubSeq(Unwrap(env.TARGET), 1, 7) = <<"x", "8",
                         "6", "_", "6", "4", "-">>
                        THEN <<"x", "6", "4", "-", "w", "i", "n", "d", "o",
                            "w", "s">> ELSE <<"x", "8", "6", "-", "w", "i",
                            "n", "d", "o", "w", "s">>)
                         \o (IF call.ret.lib.is_static THEN <<"-", "s", "t",
                             "a", "t", "i", "c">>
                             ELSE <<>>)

\* a probe for the target x86_64-unknown-linux-gnu failed with NotMSVC
C20_Witness ==
    /\ Probed
    /\ env.TARGET = Some(<<"x", "8", "6", "_", "6", "4", "-", "u", "n", "k",
        "n", "o", "w", "n", "-", "l", "i", "n", "u", "x", "-", "g", "n",
        "u">>)
    /\ ~call.ret.ok
    /\ call.ret.error = "NotMSVC"

\* a probe for the target aarch64-pc-windows-msvc linked from x86-windows
C20_WitnessX86 ==
    /\ Probed
    /\ env.TARGET = Some(<<"a", "a", "r", "c", "h", "6", "4", "-", "p", "c",
        "-", "w", "i", "n", "d", "o", "w", "s", "-", "m", "s", "v", "c">>)
    /\ call.ret.ok
    /\ call.ret.lib.link_paths[1][4] = <<"x", "8", "6", "-", "w", "i", "n",
        "d", "o", "w", "s">>

\* a probe with TARGET unset failed with NotMSVC
C20_WitnessUnset ==
    /\ Probed
    /\ env.TARGET = None
    /\ ~call.ret.ok
    /\ call.ret.error = "NotMSVC"

(***************************************************************************)
(* Further properties of process_metadata.                                 *)
(***************************************************************************)
\* the workspace md without the package at position k of its package list
WithoutPackageAt(md, k) ==
    [md EXCEPT !.packages = SubSeq(@, 1, k - 1) \o DropFirst(@, k)]

\* C21: the loop step over a package whose metadata has no vcpkg block, the
\* root package included, fails nothing and leaves the ports, the triplet,
\* the git URL and the selector as they were; and what process_metadata
\* returns is what it returns for the workspace without any one such package.
C21_NoBlockSkipped ==
    [][/\ (pc = "loop" /\ i < Len(metadata.packages) /\ ~HasDecl(i + 1))
          => /\ pc' = "loop" /\ i' = i + 1
             /\ vcpkg_ports' = vcpkg_ports
             /\ vcpkg_triplet' = vcpkg_triplet
             /\ git_url' = git_url
             /\ rev_tag_branch' = rev_tag_branch
             /\ result' = result
       /\ pc' = "done"
          => \A k \in Positions :
                ~HasDecl(k)
                => process_metadata(WithoutPackageAt(metadata, k),
                                    target_triple) = result'
      ]_vars

\* C21 witness: a resolution returned the ports of the second package for a
\* workspace whose root, the first package, has no vcpkg block
C21_Witness ==
    /\ pc = "done" /\ result.ok
    /\ Len(metadata.packages) = 2
    /\ IsRootAt(1) /\ ~HasDecl(1) /\ HasDecl(2)
    /\ result.vcpkg_ports = <<"m">>
    /\ result.git_url = None /\ result.vcpkg_triplet = None

\* the dependency part of a declaration: the dependency list of the entry for
\* the target if the entry has one, else the general dependency list
DependencyPart(v, tt) ==
    IF tt \in DOMAIN v.target /\ v.target[tt].dependencies # None
    THEN v.target[tt].dependencies[1]
    ELSE IF v.dependencies # None THEN v.dependencies[1] ELSE <<>>

\* the dev-dependency part of a declaration: the dev-dependency list of the
\* entry for the target if there is an entry, else the general one
DevDependencyPart(v, tt) ==
    IF tt \in DOMAIN v.target
    THEN IF v.target[tt].dev_dependencies # None
         THEN v.target[tt].dev_dependencies[1] ELSE <<>>
    ELSE IF v.dev_dependencies # None THEN v.dev_dependencies[1] ELSE <<>>

\* what the package at position k contributes
Contribution(k) ==
    IF ~HasDecl(k) THEN <<>>
    ELSE DependencyPart(DeclAt(k), target_triple)
           \o (IF IsRootAt(k) THEN DevDependencyPart(DeclAt(k), target_triple)
               ELSE <<>>)

\* the contributions of the first n packages, one after the other
RECURSIVE ContributionsUpTo(_)
ContributionsUpTo(n) ==
    IF n = 0 THEN <<>> ELSE ContributionsUpTo(n - 1) \o Contribution(n)

\* the sum of the lengths of the contributions of the first n packages
RECURSIVE ContributionLengthsUpTo(_)
ContributionLengthsUpTo(n) ==
    IF n = 0 THEN 0
    ELSE ContributionLengthsUpTo(n - 1) + Len(Contribution(n))

\* C22: the ports collected after i packages are the contributions of these
\* packages one after the other, in the order of the package list, and the
\* ports returned are the contributions of all packages: as many ports as
\* the contributions have entries, a port entered by several packages once
\* for each.
C22_PortsAreConcatenation ==
    /\ pc = "loop" => vcpkg_ports = ContributionsUpTo(i)
    /\ (pc = "done" /\ result.ok)
       => /\ result.vcpkg_ports = ContributionsUpTo(Len(metadata.packages))
          /\ Len(result.vcpkg_ports)
               = ContributionLengthsUpTo(Len(metadata.packages))

\* C22 witness: the root declares the dependencies e and m for the target,
\* the second package the dependency m: m was returned twice
C22_Witness ==
    /\ pc = "done" /\ result.ok
    /\ Len(metadata.packages) = 2
    /\ IsRootAt(1) /\ HasDecl(1) /\ HasDecl(2)
    /\ Contribution(1) = <<"e", "m">>
    /\ Contribution(2) = <<"m">>
    /\ result.vcpkg_ports = <<"e", "m", "m">>

\* C23: the loop step over the root package appends, after the dependency
\* part, the dev-dependency list of the root's entry for the active target
\* if the entry has one and nothing if it has none, and no name of the
\* general dev-dependency list; with no entry for the target it appends the
\* general dev-dependency list.  No name of the general dev-dependency list
\* of a root with an entry for the target is in the ports returned.
C23_OverrideDevDependencies ==
    [][/\ (/\ pc = "loop" /\ pc' = "loop" /\ i' = i + 1
           /\ HasDecl(i + 1) /\ IsRootAt(i + 1))
          => LET v == DeclAt(i + 1)
                 deps == DependencyPart(v, target_triple)
                 general == IF v.dev_dependencies # None
                            THEN v.dev_dependencies[1] ELSE <<>>
                 added == DropFirst(vcpkg_ports', Len(vcpkg_ports))
             IN  IF target_triple \in DOMAIN v.target
                 THEN LET t == v.target[target_triple]
                      IN  /\ added = deps \o (IF t.dev_dependencies # None
                                              THEN t.dev_dependencies[1]
                                              ELSE <<>>)
                          /\ Range(general) \cap Range(added) = {}
                 ELSE added = deps \o general
       /\ (pc' = "done" /\ result'.ok)
          => \A k \in Positions :
                (/\ IsRootAt(k) /\ HasDecl(k)
                 /\ target_triple \in DOMAIN DeclAt(k).target
                 /\ DeclAt(k).dev_dependencies # None)
                => Range(DeclAt(k).dev_dependencies[1])
                     \cap Range(result'.vcpkg_ports) = {}
      ]_vars

\* C23 witness: a resolution returned only the dependency a for a root that
\* declares the general dev-dependency d and has an entry for the active
\* target without dev-dependency list
C23_Witness ==
    /\ pc = "done" /\ result.ok
    /\ Len(metadata.packages) = 1 /\ IsRootAt(1) /\ HasDecl(1)
    /\ target_triple \in DOMAIN DeclAt(1).target
    /\ DeclAt(1).target[target_triple].dev_dependencies = None
    /\ DeclAt(1).target[target_triple].dependencies = None
    /\ DeclAt(1).dependencies = Some(<<"a">>)
    /\ DeclAt(1).dev_dependencies = Some(<<"d">>)
    /\ result.vcpkg_ports = <<"a">>

\* C24: while the loop runs and in every Ok value returned, the git URL is
\* present exactly if the selector is; an Ok value holds the root's git URL
\* and the one selector the root sets if the root declares a git URL, and
\* neither otherwise, also when the root sets branch, tag or rev without a
\* git URL.
C24_UrlIffSelector ==
    /\ pc = "loop" => (git_url # None <=> rev_tag_branch # None)
    /\ (pc = "done" /\ result.ok)
       => /\ result.git_url # None <=> result.rev_tag_branch # None
          /\ IF \E k \in Positions :
                   IsRootAt(k) /\ HasDecl(k) /\ DeclAt(k).git # None
             THEN LET v == DeclAt(Unwrap(metadata.root))
                  IN  /\ Cardinality(SelectorsSet(v)) = 1
                      /\ result.git_url = v.git
                      /\ result.rev_tag_branch = Some(TheSelector(v))
             ELSE /\ result.git_url = None
                  /\ result.rev_tag_branch = None

\* C24 witness: a resolution returned neither URL nor selector for a root
\* that sets branch and no git URL
C24_Witness ==
    /\ pc = "done" /\ result.ok
    /\ IsRootAt(1) /\ HasDecl(1)
    /\ DeclAt(1).git = None
    /\ SelectorsSet(DeclAt(1)) = {"branch"}
    /\ result.git_url = None /\ result.rev_tag_branch = None

\* a resolution returned the root's git URL and its tag
C24_WitnessBoth ==
    /\ pc = "done" /\ result.ok
    /\ IsRootAt(1) /\ HasDecl(1)
    /\ result.git_url = Some("https://github.com/microsoft/vcpkg")
    /\ result.rev_tag_branch = Some(<<"Tag", "2020.06">>)

(***************************************************************************)
(* Properties of build.                                                    *)
(***************************************************************************)
\* C25: when build is at the checkout step a selector is there, so that its
\* unwrap does not panic, whether the tree was cloned or fetched; and git
\* pull is run only right after a git checkout and only for a branch.
C25_CheckoutHasSelector ==
    /\ pc = "checkout" => rev_tag_branch # None
    /\ pc # "panicked"
    /\ \A n \in DOMAIN commands :
          commands[n] = <<"git", "pull">>
          => /\ n > 1
             /\ commands[n - 1][2] = "checkout"
             /\ rev_tag_branch # None
             /\ rev_tag_branch[1][1] = "Branch"

C26_WitnessLinkage ==
    /\ Probed
    /\ call.port_name = <<"z", "-", "l", "i", "b">>
    /\ env.signals = {<<"Z", "_", "L", "I", "B", "_", "S", "T", "A", "T",
        "I", "C">>}
    /\ config.statik = None
    /\ config.required_libs = <<LibNames(<<"f", "o", "o">>, <<"f", "o",
        "o">>)>>
    /\ call.ret.ok
    /\ call.ret.lib.is_static
    /\ stdout[Len(stdout)] = <<"c", "a", "r", "g", "o", ":", "r", "u", "s",
        "t", "c", "-", "l", "i", "n", "k", "-", "l", "i", "b", "=", "s", "t",
        "a", "t", "i", "c", "=", "f", "o", "o">>

====
